---- MODULE Spec2Model ----
(***************************************************************************)
(* State-machine model of the feed-forward training engine of neru:        *)
(* Neron (a unit), NeuralNetwork (layers, association memory, train,      *)
(* trainUntilLearned and the weight-injection fallbacks).                  *)
(*                                                                         *)
(* Numbers.  JavaScript numbers are modelled in fixed point: the integer   *)
(* n stands for n / Scale.  NaN is a value of its own and is absorbing in  *)
(* arithmetic, as in IEEE 754; a read of a missing array element           *)
(* (undefined) takes part in arithmetic as NaN.  The logistic function is  *)
(* tabulated at the integers and interpolated linearly in between.         *)
(* Math.random() is a nondeterministic draw from a small table.            *)
(***************************************************************************)
EXTENDS Integers, Sequences, FiniteSets, TLC

\* ------------------------------------------------------------------------
\* Bounds of the model
\* ------------------------------------------------------------------------
MaxOps == 2

MaxLen == 2

MaxAttempts == 6

MaxTracks == 8

MaxVocab == 2

MaxDim == 2

MaxLayerOps == 3

MaxHidden == 2

MaxEpochs == 3

MaxPatience == 2

MaxAdvancedOps == 2

\* ------------------------------------------------------------------------
\* Fixed-point numbers with NaN
\* ------------------------------------------------------------------------
Scale == 100

NaN == -1000000000

IsNaN(x) == x = NaN

Quot(a, b) == IF a >= 0 THEN a \div b ELSE -((-a) \div b)

Add(a, b) == IF IsNaN(a) \/ IsNaN(b) THEN NaN ELSE a + b

Sub(a, b) == IF IsNaN(a) \/ IsNaN(b) THEN NaN ELSE a - b

Mul(a, b) == IF IsNaN(a) \/ IsNaN(b) THEN NaN ELSE Quot(a * b, Scale)

\* a > b in JavaScript: false as soon as one side is NaN
Gt(a, b) == ~IsNaN(a) /\ ~IsNaN(b) /\ a > b

Lt(a, b) == ~IsNaN(a) /\ ~IsNaN(b) /\ a < b

MinNum(a, b) == IF a < b THEN a ELSE b

MaxNum(a, b) == IF a > b THEN a ELSE b

\* an array literal: the elements are computed once, when it is built
Array(f) == f \o <<>>

\* Array(len).fill(0)
Zeros(len) == Array([i \in 1..len |-> 0])

\* array[i] with a 0-based index i: undefined (NaN in arithmetic) outside
At(arr, i) == IF i >= 0 /\ i < Len(arr) THEN arr[i + 1] ELSE NaN

\* arr[i] = v with a 0-based index i >= 0: a write past the end grows the
\* array and leaves holes (undefined) in between
SetAt(arr, i, v) ==
  Array([k \in 1..MaxNum(Len(arr), i + 1) |->
     IF k = i + 1 THEN v ELSE IF k <= Len(arr) THEN arr[k] ELSE NaN])

\* ------------------------------------------------------------------------
\* Neron
\* ------------------------------------------------------------------------
BaseLearningRate == 10

Momentum == 90

MaxLearningRate == 50

SigmoidTable == <<50, 73, 88, 95, 98, 99, 100, 100>>

\* 1 / (1 + exp(-x)) for 0 <= x <= 16
Logistic(x) ==
  LET k == x \div Scale
      r == x % Scale
  IN  IF k + 2 > Len(SigmoidTable) THEN Scale
      ELSE SigmoidTable[k + 1]
             + ((SigmoidTable[k + 2] - SigmoidTable[k + 1]) * r) \div Scale

activation(x) ==
  IF IsNaN(x) THEN NaN
  ELSE IF x < -16 * Scale THEN 0
  ELSE IF x > 16 * Scale THEN Scale
  ELSE IF x >= 0 THEN Logistic(x) ELSE Scale - Logistic(-x)

\* new Neron(weights, bias)
Neron(weights, bias) ==
  [weights |-> weights, bias |-> bias,
   lastInputs |-> <<>>, lastOutput |-> 0,
   learningRate |-> BaseLearningRate,
   prevWeightDeltas |-> Array([i \in 1..Len(weights) |-> 0]),
   prevBiasDelta |-> 0]

resetLearningRate(n) == [n EXCEPT !.learningRate = BaseLearningRate]

boostLearningRate(n, factor) ==
  [n EXCEPT !.learningRate = MinNum(MaxLearningRate, Mul(BaseLearningRate, factor))]

RECURSIVE DotFrom(_, _, _, _)
DotFrom(inputs, weights, i, len) ==
  IF i >= len THEN 0
  ELSE Add(Mul(At(inputs, i), At(weights, i)), DotFrom(inputs, weights, i + 1, len))

\* a variant: a pass that also moves the bias to the output
FiredAndMoved(n, inputs, out) ==
  [unit |-> [n EXCEPT !.lastInputs = inputs, !.lastOutput = out, !.bias = out],
   out  |-> out]

\* the unit with its caches set to the inputs and the output of a pass
Fired(n, inputs, out) ==
  [unit |-> [n EXCEPT !.lastInputs = inputs, !.lastOutput = out],
   out  |-> out]

\* Neron.output: the unit with its caches set, and the value returned
output(n, inputs) ==
  Fired(n, inputs,
        activation(Add(n.bias,
                       DotFrom(inputs, n.weights, 0,
                               MinNum(Len(inputs), Len(n.weights))))))

\* the updates of Neron.train, step being learningRate * outputDerivative
NeronUpdate(n, outputDerivative, step) ==
  LET weightDelta(i) == Mul(step, At(n.lastInputs, i))
      len == Len(n.weights)
  IN  [unit |->
         [n EXCEPT
            !.weights = Array([k \in 1..len |->
               Add(n.weights[k],
                   Add(weightDelta(k - 1),
                       Mul(Momentum, At(n.prevWeightDeltas, k - 1))))]),
            !.prevWeightDeltas =
               Array([k \in 1..MaxNum(len, Len(n.prevWeightDeltas)) |->
                  IF k <= len THEN weightDelta(k - 1) ELSE n.prevWeightDeltas[k]]),
            !.bias = Add(n.bias, Add(step, Mul(Momentum, n.prevBiasDelta))),
            !.prevBiasDelta = step],
       delta |-> outputDerivative]

NeronStep(n, outputDerivative) ==
  NeronUpdate(n, outputDerivative, Mul(n.learningRate, outputDerivative))

\* Neron.train: the updated unit and the returned outputDerivative
NeronTrain(n, error, reinforcement) ==
  NeronStep(n, Mul(Mul(Mul(error, reinforcement), n.lastOutput),
                   Sub(Scale, n.lastOutput)))

\* ------------------------------------------------------------------------
\* Math.random()
\* ------------------------------------------------------------------------
RandomTable == <<-70, 40, 90, -20, 60, -50, 10, -90>>

Seeds == {0, 3}

\* the k-th draw of a run of draws: Math.random() * 2 - 1
Draw(seed, k) == RandomTable[((seed + k) % Len(RandomTable)) + 1]

\* Math.random() * 0.2 - 0.1
SmallDraw(seed, k) == Quot(Draw(seed, k), 10)

\* ------------------------------------------------------------------------
\* Labels and the association memory
\* ------------------------------------------------------------------------
\* A label is a sequence of characters; "" is <<>>.
Colon == ":"

\* `${inputWord}:${outputWord}`
Key(inputWord, outputWord) == inputWord \o <<Colon>> \o outputWord

\* String.prototype.startsWith
startsWith(s, prefix) ==
  Len(prefix) <= Len(s) /\ SubSeq(s, 1, Len(prefix)) = prefix

\* String.prototype.split(':'): the pieces between the delimiters
RECURSIVE split(_)
split(s) ==
  IF \A i \in 1..Len(s) : s[i] # Colon THEN <<s>>
  ELSE LET i == CHOOSE j \in 1..Len(s) :
                  s[j] = Colon /\ \A m \in 1..(j - 1) : s[m] # Colon
       IN  <<SubSeq(s, 1, i - 1)>> \o split(SubSeq(s, i + 1, Len(s)))

\* A strength is the exact fraction num / den, kept as <<num, den>> with
\* den a multiple of 10.
InitialStrength == <<5, 10>>

\* currentStrength + (1 - currentStrength) * 0.2
Strengthen(s) == <<4 * s[1] + s[2], 5 * s[2]>>

\* a variant: a failure without the floor
Decay(s) == <<4 * s[1], 5 * s[2]>>

\* Math.max(0.1, currentStrength * 0.8)
Weaken(s) == <<MaxNum(s[2] \div 2, 4 * s[1]), 5 * s[2]>>

\* NeuralNetwork.trackAssociation
trackAssociation(nn, inputWord, outputWord, success) ==
  LET key == Key(inputWord, outputWord)
      known == key \in DOMAIN nn.associationStrengths
      attempts == (IF known THEN nn.trainingAttempts[key] ELSE 0) + 1
      currentStrength ==
        IF known THEN nn.associationStrengths[key] ELSE InitialStrength
      newStrength ==
        IF success THEN Strengthen(currentStrength) ELSE Weaken(currentStrength)
      keys == DOMAIN nn.associationStrengths \cup {key}
  IN  [nn EXCEPT
         !.associationStrengths =
            [k \in keys |-> IF k = key THEN newStrength
                            ELSE nn.associationStrengths[k]],
         !.trainingAttempts =
            [k \in keys |-> IF k = key THEN attempts
                            ELSE nn.trainingAttempts[k]]]

\* NeuralNetwork.calculateReinforcement
calculateReinforcement(nn, inputWord, outputWord) ==
  LET key == Key(inputWord, outputWord) IN
  IF key \notin DOMAIN nn.associationStrengths THEN Scale
  ELSE LET attempts == nn.trainingAttempts[key]
           strength == nn.associationStrengths[key]
       IN  IF attempts > 5 /\ 2 * strength[1] < strength[2] THEN 5 * Scale
           ELSE IF attempts > 3 THEN 2 * Scale
           ELSE Scale

\* NeuralNetwork.isConflictingAssociation
isConflictingAssociation(nn, inputWord, targetWord) ==
  LET targetWords ==
        {split(key)[2] : key \in
           {k \in DOMAIN nn.associationStrengths :
              /\ startsWith(k, inputWord \o <<Colon>>)
              /\ Len(split(k)) = 2
              /\ split(k)[2] # targetWord}}
  IN  Cardinality(targetWords) > 0

\* ------------------------------------------------------------------------
\* NeuralNetwork: construction, resize, forward pass
\* ------------------------------------------------------------------------
\* Array(n).fill().map(() => draw), the draws numbered from `from`
RandomWeights(n, seed, from) == Array([i \in 1..n |-> Draw(seed, from + i)])

\* one layer of `size` units over `fanIn` inputs
NewLayer(size, fanIn, seed, from) ==
  Array([u \in 1..size |->
     Neron(RandomWeights(fanIn, seed, from + u * (fanIn + 1)),
           Draw(seed, from + u * (fanIn + 1) + fanIn + 1))])

RECURSIVE HiddenLayers(_, _, _, _)
HiddenLayers(hiddenSizes, l, prevLayerSize, seed) ==
  IF l > Len(hiddenSizes) THEN <<>>
  ELSE <<NewLayer(hiddenSizes[l], prevLayerSize, seed, 7 * l)>>
         \o HiddenLayers(hiddenSizes, l + 1, hiddenSizes[l], seed)

\* new NeuralNetwork(inputSize, hiddenSizes, outputSize)
NeuralNetwork(inputSize, hiddenSizes, outputSize, seed) ==
  LET prevLayerSize ==
        IF Len(hiddenSizes) = 0 THEN inputSize
        ELSE hiddenSizes[Len(hiddenSizes)]
  IN  [inputSize |-> inputSize,
       outputSize |-> outputSize,
       layers |-> HiddenLayers(hiddenSizes, 1, inputSize, seed),
       outputLayer |-> NewLayer(outputSize, prevLayerSize, seed, 3),
       associationStrengths |-> <<>>,
       trainingAttempts |-> <<>>]

\* a variant: outputSize follows the argument even when it is smaller
resizedOutputSizeAssigned(outputSize, newOutputSize) == newOutputSize

\* this.outputSize after resize
resizedOutputSize(outputSize, newOutputSize) ==
  IF newOutputSize > outputSize THEN newOutputSize ELSE outputSize

\* a variant: inputSize keeps its value
resizedInputSizeKept(inputSize, newInputSize) == inputSize

\* this.inputSize after resize
resizedInputSize(inputSize, newInputSize) == newInputSize

\* a variant: the output layer is cut down to a smaller newOutputSize
resizeCutting(nn, newInputSize, newOutputSize, seed) ==
  [nn |-> [nn EXCEPT
             !.outputLayer =
                IF newOutputSize < Len(nn.outputLayer)
                THEN SubSeq(nn.outputLayer, 1, newOutputSize)
                ELSE nn.outputLayer,
             !.outputSize = newOutputSize,
             !.inputSize = newInputSize],
   threw |-> FALSE]

\* NeuralNetwork.resize: the network after the call, and whether the call
\* raised a TypeError (no hidden layer to read)
resize(nn, newInputSize, newOutputSize, seed) ==
  LET growIn == newInputSize > nn.inputSize
      growOut == newOutputSize > nn.outputSize
      noLayers == Len(nn.layers) = 0
      layers1 ==
        IF growIn /\ ~noLayers
        THEN [nn.layers EXCEPT ![1] =
                Array([u \in 1..Len(nn.layers[1]) |->
                   [nn.layers[1][u] EXCEPT !.weights =
                      nn.layers[1][u].weights
                        \o Array([i \in 1..(newInputSize - nn.inputSize) |->
                              SmallDraw(seed, u + i)])]])]
        ELSE nn.layers
      lastLen == Len(nn.layers[Len(nn.layers)])
      added ==
        Array([j \in 1..(newOutputSize - nn.outputSize) |->
           Neron(RandomWeights(lastLen, seed, 2 * j), Draw(seed, 5 + j))])
  IN  IF noLayers /\ (growIn \/ growOut)
      THEN [nn |-> nn, threw |-> TRUE]
      ELSE [nn |-> [nn EXCEPT
                      !.layers = layers1,
                      !.outputLayer = IF growOut THEN nn.outputLayer \o added
                                      ELSE nn.outputLayer,
                      !.outputSize =
                         resizedOutputSize(nn.outputSize, newOutputSize),
                      !.inputSize = resizedInputSize(nn.inputSize, newInputSize)],
            threw |-> FALSE]

\* NeuralNetwork.findHighestIndex (0-based; -1 for an empty array)
RECURSIVE HighestFrom(_, _, _, _)
HighestFrom(array, i, maxIndex, maxValue) ==
  IF i >= Len(array) THEN maxIndex
  ELSE IF Gt(array[i + 1], maxValue)
       THEN HighestFrom(array, i + 1, i, array[i + 1])
       ELSE HighestFrom(array, i + 1, maxIndex, maxValue)

findHighestIndex(array) ==
  IF Len(array) = 0 THEN -1 ELSE HighestFrom(array, 1, 0, array[1])

\* the units and the values of the results of a layer's units
Outputs(res) ==
  [layer |-> Array([u \in 1..Len(res) |-> res[u].unit]),
   out   |-> Array([u \in 1..Len(res) |-> res[u].out])]

\* layer.map(neuron => neuron.output(input))
LayerOutput(layer, input) ==
  Outputs(Array([u \in 1..Len(layer) |-> output(layer[u], input)]))

\* the hidden layers from layer l on: the layers with their caches set, and
\* the output of the last one
RECURSIVE ForwardFrom(_, _, _)

\* r is the result of layer l
ForwardNext(layers, l, r) ==
  ForwardFrom([layers EXCEPT ![l] = r.layer], l + 1, r.out)

ForwardFrom(layers, l, input) ==
  IF l > Len(layers) THEN [layers |-> layers, out |-> input]
  ELSE ForwardNext(layers, l, LayerOutput(layers[l], input))

\* h is the result of the hidden layers, o that of the output layer
Forwarded(nn, h, o) ==
  [nn |-> [nn EXCEPT !.layers = h.layers, !.outputLayer = o.layer],
   out |-> o.out]

ForwardOutputs(nn, h) == Forwarded(nn, h, LayerOutput(nn.outputLayer, h.out))

\* the forward pass over all layers on an input taken as it is
Forward(nn, input) == ForwardOutputs(nn, ForwardFrom(nn.layers, 1, input))

\* inputs padded with zeros or truncated to inputSize
PadInputs(nn, inputs) ==
  IF Len(inputs) < nn.inputSize
  THEN inputs \o Array([i \in 1..(nn.inputSize - Len(inputs)) |-> 0])
  ELSE IF Len(inputs) > nn.inputSize THEN SubSeq(inputs, 1, nn.inputSize)
  ELSE inputs

\* NeuralNetwork.feedForward with the default temperature 1.0
feedForward(nn, inputs) == Forward(nn, PadInputs(nn, inputs))

\* ------------------------------------------------------------------------
\* NeuralNetwork.train
\* ------------------------------------------------------------------------
\* Math.pow(d, 2), counted when it is a number
SquareOrZero(d) == IF IsNaN(d) THEN 0 ELSE Mul(d, d)

\* the sum of the squared errors that are numbers, over expectedOutputs
RECURSIVE SquaredErrors(_, _, _)
SquaredErrors(expectedOutputs, finalOutputs, i) ==
  IF i >= Len(expectedOutputs) THEN 0
  ELSE SquareOrZero(Sub(At(expectedOutputs, i), At(finalOutputs, i)))
         + SquaredErrors(expectedOutputs, finalOutputs, i + 1)

\* totalError /= expectedOutputs.length (0 / 0 is NaN)
MeanError(expectedOutputs, finalOutputs) ==
  IF Len(expectedOutputs) = 0 THEN NaN
  ELSE Quot(SquaredErrors(expectedOutputs, finalOutputs, 0), Len(expectedOutputs))

\* a variant: the caller's value whatever the memory holds
callerReinforcement(nn, inputWord, outputWord, reinforcementFactor) ==
  reinforcementFactor

\* the multiplier train applies
Reinforcement(nn, inputWord, outputWord, reinforcementFactor) ==
  IF inputWord # <<>> /\ outputWord # <<>>
  THEN MaxNum(reinforcementFactor,
              calculateReinforcement(nn, inputWord, outputWord))
  ELSE reinforcementFactor

\* the units and the deltas of the results of a layer's units
Trained(res) ==
  [layer  |-> Array([u \in 1..Len(res) |-> res[u].unit]),
   deltas |-> Array([u \in 1..Len(res) |-> res[u].delta])]

\* every unit of a layer trained on its error
TrainLayer(layer, errors, reinforcement) ==
  Trained(Array([u \in 1..Len(layer) |->
             NeronTrain(layer[u], errors[u], reinforcement)]))

\* the error of unit i (0-based) of a layer: the sum over the units j of
\* the next layer of nextLayerDeltas[j] * nextLayerWeights[j][i]
RECURSIVE BackError(_, _, _, _)
BackError(nextLayerDeltas, nextLayerWeights, i, j) ==
  IF j > Len(nextLayerDeltas) THEN 0
  ELSE LET rest == BackError(nextLayerDeltas, nextLayerWeights, i, j + 1)
       IN  IF i < Len(nextLayerWeights[j])
           THEN Add(Mul(nextLayerDeltas[j], nextLayerWeights[j][i + 1]), rest)
           ELSE rest

\* n.weights of every unit of a layer
WeightsOf(layer) == Array([u \in 1..Len(layer) |-> layer[u].weights])

\* the hidden layers trained from layer l down to the first
RECURSIVE BackPropagate(_, _, _, _, _)

\* t is the result of training layer l
BackNext(layers, l, t, reinforcement) ==
  BackPropagate([layers EXCEPT ![l] = t.layer], l - 1, t.deltas,
                WeightsOf(t.layer), reinforcement)

BackPropagate(layers, l, nextLayerDeltas, nextLayerWeights, reinforcement) ==
  IF l < 1 THEN layers
  ELSE BackNext(layers, l,
                TrainLayer(layers[l],
                           Array([u \in 1..Len(layers[l]) |->
                              BackError(nextLayerDeltas, nextLayerWeights,
                                        u - 1, 1)]),
                           reinforcement),
                reinforcement)

\* the multiplier one train call hands to the units of the output layer
OutputMultiplier(reinforcement) == reinforcement

\* the multiplier one train call hands to the units of the hidden layers
HiddenMultiplier(reinforcement) == reinforcement

\* expectedOutputs[i] - finalOutputs[i] for every output unit
OutputErrors(expectedOutputs, finalOutputs) ==
  Array([i \in 1..Len(finalOutputs) |->
     Sub(At(expectedOutputs, i - 1), finalOutputs[i])])

\* train from the backpropagation on: f is the result of the forward pass,
\* o that of training the output layer
TrainHidden(f, totalError, o, reinforcement) ==
  [nn |-> [f.nn EXCEPT
             !.layers = BackPropagate(f.nn.layers, Len(f.nn.layers), o.deltas,
                                      WeightsOf(o.layer),
                                      HiddenMultiplier(reinforcement)),
             !.outputLayer = o.layer],
   ret |-> totalError, caught |-> FALSE,
   outputMultiplier |-> OutputMultiplier(reinforcement),
   hiddenMultiplier |-> HiddenMultiplier(reinforcement)]

\* train from the error calculation on
TrainOutputs(f, expectedOutputs, reinforcement) ==
  TrainHidden(f, MeanError(expectedOutputs, f.out),
              TrainLayer(f.nn.outputLayer,
                         OutputErrors(expectedOutputs, f.out),
                         OutputMultiplier(reinforcement)),
              reinforcement)

\* train from the forward pass on: r is the result of the resize
TrainResized(r, inputs, expectedOutputs, reinforcement) ==
  IF r.threw
  THEN [nn |-> r.nn, ret |-> 0, caught |-> TRUE,
        outputMultiplier |-> 0, hiddenMultiplier |-> 0]
  ELSE TrainOutputs(Forward(r.nn, inputs), expectedOutputs, reinforcement)

\* NeuralNetwork.train: the network after the call, the value returned, and
\* whether an exception was caught on the way
train(nn, inputs, expectedOutputs, inputWord, outputWord, reinforcementFactor, seed) ==
  TrainResized(
    IF Len(inputs) # nn.inputSize \/ Len(expectedOutputs) # nn.outputSize
    THEN resize(nn, MaxNum(Len(inputs), nn.inputSize),
                MaxNum(Len(expectedOutputs), nn.outputSize), seed)
    ELSE [nn |-> nn, threw |-> FALSE],
    inputs, expectedOutputs,
    Reinforcement(nn, inputWord, outputWord, reinforcementFactor))

\* ------------------------------------------------------------------------
\* The weight-injection fallbacks
\* ------------------------------------------------------------------------
\* weights[i] += amount
Bump(weights, i, amount) == SetAt(weights, i, Add(At(weights, i), amount))

\* weights[i] += amount for every i < count
RECURSIVE BumpFirst(_, _, _)
BumpFirst(weights, count, amount) ==
  IF count <= 0 THEN weights
  ELSE Bump(BumpFirst(weights, count - 1, amount), count - 1, amount)

\* a variant: the bias of every unit moves with the weight
BumpLayerWithBias(layer, inputIndex, amount) ==
  Array([u \in 1..Len(layer) |->
     [layer[u] EXCEPT !.weights = Bump(layer[u].weights, inputIndex, amount),
                      !.bias = Add(layer[u].bias, amount)]])

\* for (const neuron of layer) neuron.weights[inputIndex] += amount
BumpLayerAt(layer, inputIndex, amount) ==
  Array([u \in 1..Len(layer) |->
     [layer[u] EXCEPT !.weights = Bump(layer[u].weights, inputIndex, amount)]])

\* the output layer with the first `count` weights of the target unit raised
\* by `up` and those of every other unit lowered by `down`
BumpOutputs(outputLayer, outputIndex, count, up, down) ==
  Array([j \in 1..Len(outputLayer) |->
     [outputLayer[j] EXCEPT !.weights =
        BumpFirst(outputLayer[j].weights, count,
                  IF j = outputIndex + 1 THEN up ELSE -down)]])

\* NeuralNetwork.forceAssociation: the network after the call (after the part
\* of it that ran), and whether it raised a TypeError
forceAssociation(nn, inputs, expectedOutputs, factor) ==
  LET inputIndex == findHighestIndex(inputs)
      outputIndex == findHighestIndex(expectedOutputs)
      first == BumpLayerAt(nn.layers[1], inputIndex, Mul(50, factor))
      nn1 == [nn EXCEPT !.layers[1] = first]
      count == Len(nn.layers[Len(nn.layers)])
  IN  IF ~(inputIndex >= 0 /\ outputIndex >= 0) THEN [nn |-> nn, threw |-> FALSE]
      ELSE IF Len(nn.layers) = 0 THEN [nn |-> nn, threw |-> TRUE]
      ELSE IF count > 0 /\ outputIndex >= Len(nn.outputLayer)
           THEN [nn |-> nn1, threw |-> TRUE]
      ELSE [nn |-> [nn1 EXCEPT !.outputLayer =
                      BumpOutputs(nn.outputLayer, outputIndex, count,
                                  Mul(30, factor), Mul(10, factor))],
            threw |-> FALSE]

\* the middle layers from layer l (1-based, l >= 2) on, one path unit each
RECURSIVE DirectPath(_, _, _)
DirectPath(layers, l, factor) ==
  IF l > Len(layers) THEN [layers |-> layers, threw |-> FALSE]
  ELSE LET currentLayer == layers[l]
           prevLayerSize == Len(layers[l - 1])
           pathNeuronIndex == (l - 1) % Len(currentLayer)
       IN  IF Len(currentLayer) = 0
           THEN IF prevLayerSize > 0 THEN [layers |-> layers, threw |-> TRUE]
                ELSE DirectPath(layers, l + 1, factor)
           ELSE DirectPath(
                  [layers EXCEPT ![l][pathNeuronIndex + 1].weights =
                     BumpFirst(currentLayer[pathNeuronIndex + 1].weights,
                               prevLayerSize, Mul(30, factor))],
                  l + 1, factor)

\* NeuralNetwork.createDirectConnection
createDirectConnection(nn, inputs, expectedOutputs, factor) ==
  LET inputIndex == findHighestIndex(inputs)
      outputIndex == findHighestIndex(expectedOutputs)
      first == BumpLayerAt(nn.layers[1], inputIndex, Mul(factor, 50))
      path == DirectPath([nn.layers EXCEPT ![1] = first], 2, factor)
      nn1 == [nn EXCEPT !.layers = path.layers]
      prevLayerSize == Len(nn.layers[Len(nn.layers)])
  IN  IF ~(inputIndex >= 0 /\ outputIndex >= 0) THEN [nn |-> nn, threw |-> FALSE]
      ELSE IF Len(nn.layers) = 0 THEN [nn |-> nn, threw |-> TRUE]
      ELSE IF path.threw THEN [nn |-> nn1, threw |-> TRUE]
      ELSE IF prevLayerSize > 0 /\ outputIndex >= Len(nn.outputLayer)
           THEN [nn |-> nn1, threw |-> TRUE]
      ELSE [nn |-> [nn1 EXCEPT !.outputLayer =
                      BumpOutputs(nn.outputLayer, outputIndex, prevLayerSize,
                                  factor, Mul(factor, 50))],
            threw |-> FALSE]

\* ------------------------------------------------------------------------
\* Learning rates of all units
\* ------------------------------------------------------------------------
adjustNeuronLearningRates(nn, factor) ==
  [nn EXCEPT
     !.layers = Array([l \in 1..Len(nn.layers) |->
                   Array([u \in 1..Len(nn.layers[l]) |->
                      boostLearningRate(nn.layers[l][u], factor)])]),
     !.outputLayer = Array([u \in 1..Len(nn.outputLayer) |->
                        boostLearningRate(nn.outputLayer[u], factor)])]

\* a variant: a reset that leaves out the output layer
resetHiddenLearningRates(nn) ==
  [nn EXCEPT
     !.layers = Array([l \in 1..Len(nn.layers) |->
                   Array([u \in 1..Len(nn.layers[l]) |->
                      resetLearningRate(nn.layers[l][u])])])]

resetNeuronLearningRates(nn) ==
  [nn EXCEPT
     !.layers = Array([l \in 1..Len(nn.layers) |->
                   Array([u \in 1..Len(nn.layers[l]) |->
                      resetLearningRate(nn.layers[l][u])])]),
     !.outputLayer = Array([u \in 1..Len(nn.outputLayer) |->
                        resetLearningRate(nn.outputLayer[u])])]

\* ------------------------------------------------------------------------
\* NeuralNetwork.trainUntilLearned
\* ------------------------------------------------------------------------
\* An event of a session: <<name, argument>>.
Event(name, arg) == <<name, arg>>

Flag(b) == IF b THEN 1 ELSE 0

\* baseMultiplier * (1.0 + attempts * 0.5)
dynamicReinforcement(isDifficult, attempts) ==
  Mul(IF isDifficult THEN 2 * Scale ELSE Scale, Scale + attempts * 50)

\* the factor handed to forceAssociation
forceFactor(isDifficult) == IF isDifficult THEN 20 * Scale ELSE 10 * Scale

\* the factor handed to adjustNeuronLearningRates
boostFactor(isDifficult) == IF isDifficult THEN 4 * Scale ELSE 2 * Scale

\* a variant: every second attempt
forceDueEverySecond(attempts) == attempts % 2 = 0

\* attempts % 3 === 0
forceDue(attempts) == attempts % 3 = 0

\* a variant: the entry test inverted
alreadyCorrectInverted(currentPrediction, targetIndex) ==
  currentPrediction # targetIndex

\* the entry test: the network already predicts the target
alreadyCorrect(currentPrediction, targetIndex) == currentPrediction = targetIndex

\* a variant: the loop test off by one
loopContinuesInclusive(attempts, maxAttempts) == attempts <= maxAttempts

\* the loop test
loopContinues(attempts, maxAttempts) == attempts < maxAttempts

\* the test that guards the last resort
lastResortDue(success, attempts, maxAttempts) ==
  ~success /\ attempts >= maxAttempts

\* a variant: the session keeps the smallest error seen
bestError(lastError, returned) ==
  IF Lt(returned, lastError) THEN returned ELSE lastError

\* lastError after a train call that returned `returned`
nextLastError(lastError, returned) == returned

\* the test that ends the loop after a train call
learned(prediction, targetIndex, lastError, targetError) ==
  prediction = targetIndex \/ Lt(lastError, targetError)

\* A session of trainUntilLearned.  s holds its variables: the network,
\* attempts, lastError, success, whether an exception escaped, the values
\* train returned and the events so far.  c holds the arguments of the call
\* with targetIndex and isDifficult.
Session(nn, events) ==
  [nn |-> nn, attempts |-> 0, lastError |-> Scale, success |-> FALSE,
   threw |-> FALSE, errors |-> <<>>, events |-> events]

\* The while loop, from the loop test on.
RECURSIVE TrainingLoop(_, _)

\* after the check of the forced weights: f is the result of the feedForward
ForceChecked(s, c, f) ==
  IF findHighestIndex(f.out) = c.targetIndex
  THEN [s EXCEPT !.nn = f.nn, !.success = TRUE,
                 !.events = s.events \o <<Event("check", 1)>>]
  ELSE TrainingLoop([s EXCEPT !.nn = f.nn,
                              !.events = s.events \o <<Event("check", 0)>>], c)

\* after forceAssociation: fa is its result
Forced(s, c, fa) ==
  IF fa.threw THEN [s EXCEPT !.nn = fa.nn, !.threw = TRUE]
  ELSE ForceChecked(s, c, feedForward(fa.nn, c.inputs))

\* after the check of an attempt
AfterCheck(s, c, prediction) ==
  IF learned(prediction, c.targetIndex, s.lastError, c.targetError)
  THEN [s EXCEPT !.success = TRUE]
  ELSE IF forceDue(s.attempts)
  THEN Forced([s EXCEPT !.events = s.events \o
                           <<Event("force", forceFactor(c.isDifficult))>>],
              c,
              forceAssociation(s.nn, c.inputs, c.expectedOutputs,
                               forceFactor(c.isDifficult)))
  ELSE TrainingLoop(s, c)

\* after the feedForward of an attempt: t is the result of train, f that of
\* the feedForward
Checked(s, c, t, f) ==
  AfterCheck([s EXCEPT
                !.nn = f.nn,
                !.attempts = s.attempts + 1,
                !.lastError = nextLastError(s.lastError, t.ret),
                !.errors = Append(s.errors, t.ret),
                !.events = s.events \o
                   <<Event("train",
                           dynamicReinforcement(c.isDifficult, s.attempts + 1)),
                     Event("check",
                           Flag(findHighestIndex(f.out) = c.targetIndex))>>],
             c, findHighestIndex(f.out))

\* after the train call of an attempt: t is its result
Attempted(s, c, t) == Checked(s, c, t, feedForward(t.nn, c.inputs))

TrainingLoop(s, c) ==
  IF ~loopContinues(s.attempts, c.maxAttempts) THEN s
  ELSE Attempted(s, c,
                 train(s.nn, c.inputs, c.expectedOutputs, c.inputWord,
                       c.outputWord,
                       dynamicReinforcement(c.isDifficult, s.attempts + 1),
                       c.seed))

\* after the last resort's check: f is the result of the feedForward
FinalChecked(s, c, f) ==
  [s EXCEPT !.nn = f.nn,
            !.success = (findHighestIndex(f.out) = c.targetIndex),
            !.events = s.events \o
               <<Event("check",
                       Flag(findHighestIndex(f.out) = c.targetIndex))>>]

\* after createDirectConnection: d is its result
Connected(s, c, d) ==
  IF d.threw THEN [s EXCEPT !.nn = d.nn, !.threw = TRUE]
  ELSE FinalChecked(s, c, feedForward(d.nn, c.inputs))

\* the last resort
LastResort(s, c) ==
  IF lastResortDue(s.success, s.attempts, c.maxAttempts)
  THEN Connected([s EXCEPT !.events = s.events \o
                              <<Event("direct", 50 * Scale)>>],
                 c,
                 createDirectConnection(s.nn, c.inputs, c.expectedOutputs,
                                        50 * Scale))
  ELSE s

\* a variant: the outcome is tracked after the last resort
AfterLoopTrackingLast(s, c) ==
  IF s.threw THEN s
  ELSE LET r == LastResort(
                  [s EXCEPT !.nn = resetNeuronLearningRates(s.nn),
                            !.events = s.events \o <<Event("reset", 0)>>], c)
       IN  [r EXCEPT
              !.nn = trackAssociation(r.nn, c.inputWord, c.outputWord, r.success),
              !.events = r.events \o <<Event("track", Flag(r.success))>>]

\* the part of trainUntilLearned after the loop
AfterLoop(s, c) ==
  IF s.threw THEN s
  ELSE LastResort(
         [s EXCEPT
            !.nn = trackAssociation(resetNeuronLearningRates(s.nn),
                                    c.inputWord, c.outputWord, s.success),
            !.events = s.events \o
               <<Event("reset", 0), Event("track", Flag(s.success))>>],
         c)

\* trainUntilLearned from the first test on: f is the result of the
\* feedForward at entry
Entered(f, c) ==
  IF alreadyCorrect(findHighestIndex(f.out), c.targetIndex)
  THEN [Session(trackAssociation(f.nn, c.inputWord, c.outputWord, TRUE),
                <<Event("check", 1), Event("track", 1)>>)
          EXCEPT !.lastError = 0, !.success = TRUE]
  ELSE AfterLoop(
         TrainingLoop(
           Session(adjustNeuronLearningRates(f.nn, boostFactor(c.isDifficult)),
                   <<Event("check",
                           Flag(findHighestIndex(f.out) = c.targetIndex)),
                     Event("boost", boostFactor(c.isDifficult))>>),
           c),
         c)

\* NeuralNetwork.trainUntilLearned: the session at its end.  When threw is
\* FALSE the call returns {error: lastError, attempts, success}.
trainUntilLearned(nn, inputs, expectedOutputs, inputWord, outputWord, maxAttempts, targetError, seed) ==
  Entered(feedForward(nn, inputs),
          [inputs |-> inputs, expectedOutputs |-> expectedOutputs,
           inputWord |-> inputWord, outputWord |-> outputWord,
           maxAttempts |-> maxAttempts, targetError |-> targetError,
           seed |-> seed,
           targetIndex |-> findHighestIndex(expectedOutputs),
           isDifficult |-> isConflictingAssociation(nn, inputWord, outputWord)])

\* ------------------------------------------------------------------------
\* EmbeddingLayer
\* ------------------------------------------------------------------------
\* null and undefined are <<>>; an object or an array v that is there is <<v>>
null == <<>>

undefined == <<>>

Some(v) == <<v>>

\* rows[idx] with a 0-based index: undefined in a hole or outside the array
RowAt(rows, idx) ==
  IF idx >= 0 /\ idx < Len(rows) THEN rows[idx + 1] ELSE undefined

\* rows[index] = row: a write past the end grows the array and leaves holes,
\* a write at a negative index sets a property and no element
SetRow(rows, index, row) ==
  IF index < 0 THEN rows
  ELSE Array([k \in 1..MaxNum(Len(rows), index + 1) |->
          IF k = index + 1 THEN Some(row)
          ELSE IF k <= Len(rows) THEN rows[k] ELSE undefined])

\* Math.sqrt(6 / n) for n = 1, 2, ...
XavierTable == <<245, 173, 141, 122, 110, 100, 93, 87, 82, 77, 74, 71>>

Xavier(n) == IF n <= Len(XavierTable) THEN XavierTable[n] ELSE XavierTable[Len(XavierTable)]

\* EmbeddingLayer.initializeEmbeddings: vocabSize rows of embeddingDim draws
initializeEmbeddings(vocabSize, embeddingDim, seed) ==
  Array([r \in 1..vocabSize |->
     Some(Array([d \in 1..embeddingDim |->
        Mul(Draw(seed, r * embeddingDim + d), Xavier(vocabSize + embeddingDim))]))])

\* new EmbeddingLayer(vocabSize, embeddingDim, wordEmbeddingDb)
EmbeddingLayer(vocabSize, embeddingDim, wordEmbeddingDb, seed) ==
  [vocabSize |-> vocabSize,
   embeddingDim |-> embeddingDim,
   embeddings |-> initializeEmbeddings(vocabSize, embeddingDim, seed),
   wordEmbeddingDb |-> wordEmbeddingDb]

\* new WordEmbeddings({dimensions}) holding the given vectors
WordEmbeddings(dimensions, vectors) ==
  [dimensions |-> dimensions, vectors |-> vectors,
   defaultVector |-> Zeros(dimensions)]

\* WordEmbeddings.getWordVector(word, false): the stored vector, or a copy of
\* the default vector for a word that has none
getWordVector(db, word) ==
  IF word \in DOMAIN db.vectors THEN db.vectors[word] ELSE db.defaultVector

\* EmbeddingLayer.loadPretrainedEmbeddings: the vocabulary is the sequence of
\* the entries <<word, index>> of the map, in its order
RECURSIVE LoadFrom(_, _, _, _)
LoadNext(layer, vocabulary, k, loaded, vector) ==
  IF Len(vector) = layer.embeddingDim
  THEN LoadFrom([layer EXCEPT
                   !.embeddings = SetRow(@, vocabulary[k][2], vector)],
                vocabulary, k + 1, loaded + 1)
  ELSE LoadFrom(layer, vocabulary, k + 1, loaded)

LoadFrom(layer, vocabulary, k, loaded) ==
  IF k > Len(vocabulary) THEN [layer |-> layer, ret |-> loaded > 0]
  ELSE LoadNext(layer, vocabulary, k, loaded,
                getWordVector(layer.wordEmbeddingDb[1], vocabulary[k][1]))

loadPretrainedEmbeddings(layer, vocabulary) ==
  IF layer.wordEmbeddingDb = null THEN [layer |-> layer, ret |-> FALSE]
  ELSE LoadFrom(layer, vocabulary, 1, 0)

\* EmbeddingLayer.lookup: per index the row, undefined, or a zero vector
lookup(layer, indices) ==
  Array([k \in 1..Len(indices) |->
     IF indices[k] >= 0 /\ indices[k] < layer.vocabSize
     THEN RowAt(layer.embeddings, indices[k])
     ELSE Some(Zeros(layer.embeddingDim))])

\* this.embeddings[idx][d] -= learningRate * gradients[d] for every d
RowUpdated(row, embeddingDim, gradients, learningRate) ==
  Array([d \in 1..MaxNum(Len(row), embeddingDim) |->
     IF d <= embeddingDim
     THEN Sub(At(row, d - 1), Mul(learningRate, At(gradients, d - 1)))
     ELSE row[d]])

\* EmbeddingLayer.backward from input position i on: the layer after the
\* call, and whether the call raised a TypeError (an active index without a
\* row); the rows updated before the error stay updated
RECURSIVE BackwardFrom(_, _, _, _, _)
BackwardFrom(layer, input, gradients, learningRate, i) ==
  IF i >= Len(input) THEN [layer |-> layer, threw |-> FALSE]
  ELSE IF ~Gt(input[i + 1], 0) \/ layer.embeddingDim = 0
  THEN BackwardFrom(layer, input, gradients, learningRate, i + 1)
  ELSE IF RowAt(layer.embeddings, i) = undefined
  THEN [layer |-> layer, threw |-> TRUE]
  ELSE BackwardFrom(
         [layer EXCEPT !.embeddings[i + 1] =
            Some(RowUpdated(@[1], layer.embeddingDim, gradients, learningRate))],
         input, gradients, learningRate, i + 1)

embeddingBackward(layer, input, gradients, learningRate) ==
  BackwardFrom(layer, input, gradients, learningRate, 0)

\* EmbeddingLayer.resize
embeddingResize(layer, newVocabSize, seed) ==
  IF newVocabSize <= layer.vocabSize THEN layer
  ELSE [layer EXCEPT
          !.embeddings =
             @ \o Array([r \in 1..(newVocabSize - layer.vocabSize) |->
                    Some(Array([d \in 1..layer.embeddingDim |->
                       SmallDraw(seed, r * layer.embeddingDim + d)]))]),
          !.vocabSize = newVocabSize]

\* ------------------------------------------------------------------------
\* LSTMLayer
\* ------------------------------------------------------------------------
\* a hiddenSize x columns matrix of draws: (Math.random() * 2 - 1) * factor
RandomMatrix(rows, columns, factor, seed, from) ==
  Array([h \in 1..rows |->
     Array([i \in 1..columns |->
        Mul(Draw(seed, from + h * columns + i), factor)])])

\* Array(len).fill(value)
Filled(len, value) == Array([i \in 1..len |-> value])

\* a variant: only the hidden state is cleared
resetHiddenState(l) == [l EXCEPT !.lastHidden = Zeros(l.hiddenSize)]

\* LSTMLayer.resetState
resetState(l) ==
  [l EXCEPT !.lastHidden = Zeros(l.hiddenSize),
            !.lastCell = Zeros(l.hiddenSize)]

\* the layer with the weights drawn, before the states are reset
Weighted(inputSize, hiddenSize, dropoutRate, scale, seed) ==
  [inputSize |-> inputSize, hiddenSize |-> hiddenSize,
   dropoutRate |-> dropoutRate,
   Wi |-> RandomMatrix(hiddenSize, inputSize, scale, seed, 0),
   Wf |-> RandomMatrix(hiddenSize, inputSize, scale, seed, 1),
   Wc |-> RandomMatrix(hiddenSize, inputSize, scale, seed, 2),
   Wo |-> RandomMatrix(hiddenSize, inputSize, scale, seed, 3),
   Ui |-> RandomMatrix(hiddenSize, hiddenSize, scale \div 2, seed, 4),
   Uf |-> RandomMatrix(hiddenSize, hiddenSize, scale \div 2, seed, 5),
   Uc |-> RandomMatrix(hiddenSize, hiddenSize, scale \div 2, seed, 6),
   Uo |-> RandomMatrix(hiddenSize, hiddenSize, scale \div 2, seed, 7),
   bi |-> Filled(hiddenSize, 0),
   bf |-> Filled(hiddenSize, Scale),
   bc |-> Filled(hiddenSize, 0),
   bo |-> Filled(hiddenSize, 0),
   lastInput |-> null, lastHidden |-> null, lastCell |-> null,
   gates |-> [i |-> null, f |-> null, c_new |-> undefined, o |-> null]]

\* new LSTMLayer(inputSize, hiddenSize, dropoutRate)
LSTMLayer(inputSize, hiddenSize, dropoutRate, seed) ==
  resetState(Weighted(inputSize, hiddenSize, dropoutRate,
                      Xavier(inputSize + hiddenSize), seed))

\* LSTMLayer.sigmoid
sigmoid(x) ==
  IF IsNaN(x) THEN NaN
  ELSE IF x < -16 * Scale THEN 0
  ELSE IF x > 16 * Scale THEN Scale
  ELSE IF x >= 0 THEN Logistic(x) ELSE Scale - Logistic(-x)

\* LSTMLayer.tanh: (exp(2x) - 1) / (exp(2x) + 1) is 2 / (1 + exp(-2x)) - 1
tanh(x) ==
  IF IsNaN(x) THEN NaN
  ELSE IF x < -16 * Scale THEN -Scale
  ELSE IF x > 16 * Scale THEN Scale
  ELSE IF x >= 0 THEN 2 * Logistic(2 * x) - Scale
  ELSE Scale - 2 * Logistic(-2 * x)

\* the sum over j < x.length of A[i][j] * x[j]
RECURSIVE RowTimes(_, _, _)
RowTimes(row, x, j) ==
  IF j >= Len(x) THEN 0
  ELSE Add(Mul(At(row, j), x[j + 1]), RowTimes(row, x, j + 1))

\* LSTMLayer.matmul
matmul(A, x) == Array([i \in 1..Len(A) |-> RowTimes(A[i], x, 0)])

\* LSTMLayer.applyDropout; mask[i] tells whether Math.random() > rate
applyDropout(x, rate, training, mask) ==
  IF ~training \/ rate = 0 THEN x
  ELSE Array([i \in 1..Len(x) |->
          Mul(x[i], IF mask[i] THEN Quot(Scale * Scale, Scale - rate) ELSE 0)])

\* matmul(W, x).map((val, idx) => val + matmul(U, h)[idx] + b[idx])
PreActivation(Wx, Uh, b) ==
  Array([idx \in 1..Len(Wx) |->
     Add(Add(Wx[idx], At(Uh, idx - 1)), At(b, idx - 1))])

SigmoidGate(W, U, b, x, h) ==
  Array([idx \in 1..Len(W) |->
     sigmoid(PreActivation(matmul(W, x), matmul(U, h), b)[idx])])

TanhGate(W, U, b, x, h) ==
  Array([idx \in 1..Len(W) |->
     tanh(PreActivation(matmul(W, x), matmul(U, h), b)[idx])])

\* c_prev.map((val, idx) => f_g[idx] * val + i_g[idx] * c_tilda[idx])
CellState(c_prev, i_g, f_g, c_tilda) ==
  Array([idx \in 1..Len(c_prev) |->
     Add(Mul(At(f_g, idx - 1), c_prev[idx]),
         Mul(At(i_g, idx - 1), At(c_tilda, idx - 1)))])

\* c_t.map((val, idx) => o_g[idx] * this.tanh(val))
HiddenState(c_t, o_g) ==
  Array([idx \in 1..Len(c_t) |-> Mul(At(o_g, idx - 1), tanh(c_t[idx]))])

\* the layer after the pass and the vector returned
Passed(l, input, training, outMask, i_g, f_g, c_tilda, o_g, c_t, h_t) ==
  [layer |-> [l EXCEPT !.lastInput = Some(input),
                       !.gates = [i |-> Some(i_g), f |-> Some(f_g),
                                  c_new |-> Some(c_tilda), o |-> Some(o_g)],
                       !.lastHidden = h_t,
                       !.lastCell = c_t],
   out |-> applyDropout(h_t, l.dropoutRate, training, outMask)]

PassedCell(l, input, training, outMask, i_g, f_g, c_tilda, o_g, c_t) ==
  Passed(l, input, training, outMask, i_g, f_g, c_tilda, o_g, c_t,
         HiddenState(c_t, o_g))

PassedGates(l, input, training, outMask, i_g, f_g, c_tilda, o_g) ==
  PassedCell(l, input, training, outMask, i_g, f_g, c_tilda, o_g,
             CellState(l.lastCell, i_g, f_g, c_tilda))

PassedDropped(l, input, training, outMask, x, h) ==
  PassedGates(l, input, training, outMask,
              SigmoidGate(l.Wi, l.Ui, l.bi, x, h),
              SigmoidGate(l.Wf, l.Uf, l.bf, x, h),
              TanhGate(l.Wc, l.Uc, l.bc, x, h),
              SigmoidGate(l.Wo, l.Uo, l.bo, x, h))

\* LSTMLayer.forward; inMask and outMask are the draws of the two dropouts
lstmForward(l, input, training, inMask, outMask) ==
  PassedDropped(l, input, training, outMask,
                applyDropout(input, l.dropoutRate, training, inMask),
                l.lastHidden)

\* val * this.gates.o[idx] * (1 - Math.pow(this.tanh(this.lastCell[idx]), 2))
GradCell(l, gradHidden) ==
  Array([k \in 1..Len(gradHidden) |->
     Mul(Mul(gradHidden[k], At(l.gates.o[1], k - 1)),
         Sub(Scale, Mul(tanh(At(l.lastCell, k - 1)),
                        tanh(At(l.lastCell, k - 1)))))])

GradO(l, gradHidden) ==
  Array([k \in 1..Len(gradHidden) |->
     Mul(Mul(Mul(gradHidden[k], tanh(At(l.lastCell, k - 1))),
             At(l.gates.o[1], k - 1)),
         Sub(Scale, At(l.gates.o[1], k - 1)))])

GradI(l, gradCell) ==
  Array([k \in 1..Len(gradCell) |->
     Mul(Mul(Mul(gradCell[k], At(l.gates.c_new[1], k - 1)),
             At(l.gates.i[1], k - 1)),
         Sub(Scale, At(l.gates.i[1], k - 1)))])

\* the forget gate reads this.lastCell[idx - 1]
GradF(l, gradCell) ==
  Array([k \in 1..Len(gradCell) |->
     Mul(Mul(Mul(gradCell[k], At(l.lastCell, k - 2)),
             At(l.gates.f[1], k - 1)),
         Sub(Scale, At(l.gates.f[1], k - 1)))])

GradCNew(l, gradCell) ==
  Array([k \in 1..Len(gradCell) |->
     Mul(Mul(gradCell[k], At(l.gates.i[1], k - 1)),
         Sub(Scale, Mul(At(l.gates.c_new[1], k - 1),
                        At(l.gates.c_new[1], k - 1))))])

\* gradInput[i] after the contributions of the units h, h + 1, ...
RECURSIVE GradInputFrom(_, _, _, _, _, _, _)
GradInputFrom(l, gradI, gradF, gradCNew, gradO, i, h) ==
  IF h >= l.hiddenSize THEN 0
  ELSE Add(Add(Add(Add(Mul(At(gradI, h), At(l.Wi[h + 1], i)),
                       Mul(At(gradF, h), At(l.Wf[h + 1], i))),
                   Mul(At(gradCNew, h), At(l.Wc[h + 1], i))),
               Mul(At(gradO, h), At(l.Wo[h + 1], i))),
           GradInputFrom(l, gradI, gradF, gradCNew, gradO, i, h + 1))

\* W[h][i] -= learningRate * grad[h] * this.lastInput[i]
Descended(W, grad, lastInput, learningRate) ==
  Array([h \in 1..Len(W) |->
     Array([i \in 1..Len(W[h]) |->
        Sub(W[h][i],
            Mul(Mul(learningRate, At(grad, h - 1)), At(lastInput, i - 1)))])])

\* b[h] -= learningRate * grad[h]
DescendedBias(b, grad, learningRate) ==
  Array([h \in 1..Len(b) |-> Sub(b[h], Mul(learningRate, At(grad, h - 1)))])

\* this.lastInput where backward indexes it: it is not null there
LastInput(l) == IF l.lastInput = null THEN <<>> ELSE l.lastInput[1]

\* the layer after the updates and the gradient returned
Updated(l, learningRate, gradI, gradF, gradCNew, gradO) ==
  [layer |-> [l EXCEPT
                !.Wi = Descended(@, gradI, LastInput(l), learningRate),
                !.Wf = Descended(@, gradF, LastInput(l), learningRate),
                !.Wc = Descended(@, gradCNew, LastInput(l), learningRate),
                !.Wo = Descended(@, gradO, LastInput(l), learningRate),
                !.bi = DescendedBias(@, gradI, learningRate),
                !.bf = DescendedBias(@, gradF, learningRate),
                !.bc = DescendedBias(@, gradCNew, learningRate),
                !.bo = DescendedBias(@, gradO, learningRate)],
   threw |-> FALSE,
   out |-> Array([i \in 1..l.inputSize |->
              GradInputFrom(l, gradI, gradF, gradCNew, gradO, i - 1, 0)])]

UpdatedFrom(l, gradOutput, learningRate, gradCell) ==
  Updated(l, learningRate, GradI(l, gradCell), GradF(l, gradCell),
          GradCNew(l, gradCell), GradO(l, gradOutput))

\* LSTMLayer.backward: a TypeError, and nothing changed, when the gates or
\* the last input are still null, which they are until the first forward
lstmBackward(l, gradOutput, learningRate) ==
  IF \/ l.gates.o = null /\ Len(gradOutput) > 0
     \/ l.lastInput = null /\ l.hiddenSize > 0 /\ l.inputSize > 0
  THEN [layer |-> l, threw |-> TRUE, out |-> <<>>]
  ELSE UpdatedFrom(l, gradOutput, learningRate, GradCell(l, gradOutput))

\* ------------------------------------------------------------------------
\* AdvancedNetwork
\* ------------------------------------------------------------------------
\* Infinity, the initial best loss of trainBatch
Infinity == 1000000000

\* a / b in fixed point; the only division by zero is 0 / 0
Div(a, b) ==
  IF IsNaN(a) \/ IsNaN(b) \/ b = 0 THEN NaN ELSE Quot(a * Scale, b)

\* exp(-k / 4) for k = 0, 1, ...
ExpTable == <<100, 78, 61, 47, 37, 29, 22, 17, 14, 11, 8, 6, 5, 4, 3, 2, 2, 1, 1, 1, 1, 1, 0>>

\* Math.exp(x) for x <= 0
exp(x) ==
  IF IsNaN(x) THEN NaN
  ELSE IF ((-x) \div 25) + 2 > Len(ExpTable) THEN 0
  ELSE ExpTable[((-x) \div 25) + 1]
         - ((ExpTable[((-x) \div 25) + 1] - ExpTable[((-x) \div 25) + 2])
              * ((-x) % 25)) \div 25

\* -Math.log(p) for p = 0.00 (taken as 1e-15), 0.01, ..., 1.00
NegLogTable == <<3454, 461, 391, 351, 322, 300, 281, 266, 253, 241, 230, 221, 212, 204, 197, 190, 183, 177, 171, 166, 161, 156, 151, 147, 143, 139, 135, 131, 127, 124, 120, 117, 114, 111, 108, 105, 102, 99, 97, 94, 92, 89, 87, 84, 82, 80, 78, 76, 73, 71, 69, 67, 65, 63, 62, 60, 58, 56, 54, 53, 51, 49, 48, 46, 45, 43, 42, 40, 39, 37, 36, 34, 33, 31, 30, 29, 27, 26, 25, 24, 22, 21, 20, 19, 17, 16, 15, 14, 13, 12, 11, 9, 8, 7, 6, 5, 4, 3, 2, 1, 0>>

\* -Math.log(Math.max(val, 1e-15)) for val <= 1
safeLog(val) ==
  IF IsNaN(val) THEN NaN
  ELSE IF val <= 0 THEN -NegLogTable[1]
  ELSE IF val >= Scale THEN 0
  ELSE -NegLogTable[val + 1]

\* Math.sqrt(x) for x >= 0: the largest r with r * r <= x, by bisection
RECURSIVE SqrtBetween(_, _, _)
SqrtBetween(x, lo, hi) ==
  IF hi - lo <= 1 THEN lo
  ELSE IF ((lo + hi) \div 2) * ((lo + hi) \div 2) <= x
  THEN SqrtBetween(x, (lo + hi) \div 2, hi)
  ELSE SqrtBetween(x, lo, (lo + hi) \div 2)

sqrt(x) ==
  IF IsNaN(x) \/ x < 0 THEN NaN
  ELSE SqrtBetween(x * Scale, 0, MinNum(x * Scale + 1, 46340))

\* Math.pow(base, t) for t >= 0
RECURSIVE pow(_, _)
pow(base, t) == IF t <= 0 THEN Scale ELSE Mul(base, pow(base, t - 1))

\* AdvancedNetwork.relu: Math.max(0, x)
relu(x) == IF IsNaN(x) THEN NaN ELSE MaxNum(0, x)

\* Math.max(...x) of a vector that is not empty: NaN as soon as one entry is
RECURSIVE MaxFrom(_, _)
MaxFrom(x, k) ==
  IF k = Len(x) THEN x[k]
  ELSE IF IsNaN(x[k]) \/ IsNaN(MaxFrom(x, k + 1)) THEN NaN
  ELSE MaxNum(x[k], MaxFrom(x, k + 1))

\* x.reduce((acc, val) => acc + val, 0)
RECURSIVE SumFrom(_, _)
SumFrom(x, k) == IF k > Len(x) THEN 0 ELSE Add(x[k], SumFrom(x, k + 1))

\* expValues.map(val => val / sumExp)
Normalised(expValues, sumExp) ==
  Array([i \in 1..Len(expValues) |-> Div(expValues[i], sumExp)])

ExpValues(x, max) == Array([i \in 1..Len(x) |-> exp(Sub(x[i], max))])

SoftmaxOf(expValues) == Normalised(expValues, SumFrom(expValues, 1))

\* AdvancedNetwork.softmax
softmax(x) == IF Len(x) = 0 THEN <<>> ELSE SoftmaxOf(ExpValues(x, MaxFrom(x, 1)))

\* value || fallback for a number: 0 and undefined are both falsy
Or(value, fallback) == IF value = 0 THEN fallback ELSE value

\* a dense layer object of buildNetwork
DenseLayer(inputSize_, outputSize_, dropoutRate, seed, from) ==
  [type |-> "dense", inputSize |-> inputSize_, outputSize |-> outputSize_,
   weights |-> RandomMatrix(outputSize_, inputSize_,
                            Xavier(inputSize_ + outputSize_), seed, from),
   biases |-> Zeros(outputSize_),
   lastInput |-> null, lastOutput |-> null, dropoutRate |-> dropoutRate]

\* layer instanceof LSTMLayer
IsLSTM(layer) == "Wi" \in DOMAIN layer

\* the hidden layers of buildNetwork from hiddenSizes[i] on
RECURSIVE HiddenFrom(_, _, _, _)
HiddenFrom(net, i, inputSize_, seed) ==
  IF i > Len(net.hiddenSizes) THEN <<>>
  ELSE <<IF net.useLSTM
         THEN LSTMLayer(inputSize_, net.hiddenSizes[i], net.dropout, seed + i)
         ELSE DenseLayer(inputSize_, net.hiddenSizes[i], net.dropout, seed, 7 * i)>>
       \o HiddenFrom(net, i + 1, net.hiddenSizes[i], seed)

\* the input size of the output layer
LastSize(net) ==
  IF Len(net.hiddenSizes) = 0 THEN net.embeddingDim
  ELSE net.hiddenSizes[Len(net.hiddenSizes)]

\* one accumulator of Adam: zeros in the shape of a dense layer, null for an
\* LSTM layer
Accumulator(layer) ==
  IF ~IsLSTM(layer)
  THEN Some([weights |-> Filled(layer.outputSize, Zeros(layer.inputSize)),
             biases |-> Zeros(layer.outputSize)])
  ELSE null

\* AdvancedNetwork.initAdamParams
initAdamParams(net) ==
  [net EXCEPT
     !.adamOptParams.m = Array([k \in 1..Len(net.layers) |-> Accumulator(net.layers[k])]),
     !.adamOptParams.v = Array([k \in 1..Len(net.layers) |-> Accumulator(net.layers[k])])]

\* AdvancedNetwork.buildNetwork: nothing is built without embeddings
buildNetwork(net, seed) ==
  IF ~net.useEmbeddings THEN net
  ELSE initAdamParams(
         [net EXCEPT
            !.embeddings = Some(EmbeddingLayer(net.vocabSize, net.embeddingDim,
                                               net.wordEmbeddingDb, seed)),
            !.layers = HiddenFrom(net, 1, net.embeddingDim, seed)
                         \o <<DenseLayer(LastSize(net), net.vocabSize, 0,
                                         seed, 5)>>])

\* new AdvancedNetwork(config)
AdvancedNetwork(config, seed) ==
  buildNetwork(
    [vocabSize |-> config.vocabSize,
     embeddingDim |-> Or(config.embeddingDim, 50),
     hiddenSizes |-> config.hiddenSizes,
     dropout |-> Or(config.dropout, Scale \div 5),
     learningRate |-> Or(config.learningRate, Scale \div 1000),
     beta1 |-> Or(config.beta1, (9 * Scale) \div 10),
     beta2 |-> Or(config.beta2, (999 * Scale) \div 1000),
     epsilon |-> Or(config.epsilon, Scale \div 100000000),
     useEmbeddings |-> config.useEmbeddings,
     useLSTM |-> config.useLSTM,
     layers |-> <<>>, embeddings |-> null,
     wordEmbeddingDb |-> null,
     adamOptParams |-> [t |-> 0, m |-> <<>>, v |-> <<>>]],
    seed)

\* the sum over the active positions i, i + 1, ... of the one-hot input of
\* embeddings[i][j] * input[i]
RECURSIVE CombinedFrom(_, _, _, _)
CombinedFrom(layer, input, i, j) ==
  IF i >= Len(input) THEN 0
  ELSE IF ~Gt(input[i + 1], 0) THEN CombinedFrom(layer, input, i + 1, j)
  ELSE Add(Mul(At(RowAt(layer.embeddings, i)[1], j), input[i + 1]),
           CombinedFrom(layer, input, i + 1, j))

\* embeddings.flat()
RECURSIVE Flat(_, _)
Flat(rows, k) == IF k > Len(rows) THEN <<>> ELSE rows[k][1] \o Flat(rows, k + 1)

\* EmbeddingLayer.forward: the weighted sum of the rows of a one-hot input, or
\* the rows of the entries of any other input taken as indices
embeddingForward(layer, input) ==
  IF Len(input) = layer.vocabSize
  THEN Array([j \in 1..layer.embeddingDim |-> CombinedFrom(layer, input, 0, j - 1)])
  ELSE Flat(lookup(layer, Array([k \in 1..Len(input) |-> Quot(input[k], Scale)])), 1)

\* the draws of one dropout: whether Math.random() > rate, per position
DropoutMask(len, rate, seed, from) ==
  Array([i \in 1..len |-> Draw(seed, from + i) + Scale > 2 * rate])

\* the sum over j, j + 1, ... < inputSize of weights[i][j] * input[j]
RECURSIVE WeightedFrom(_, _, _, _)
WeightedFrom(row, input, inputSize_, j) ==
  IF j >= inputSize_ THEN 0
  ELSE Add(Mul(At(row, j), At(input, j)), WeightedFrom(row, input, inputSize_, j + 1))

\* preActivation of forwardDenseLayer
DensePreActivation(layer, input) ==
  Array([i \in 1..layer.outputSize |->
     Add(WeightedFrom(layer.weights[i], input, layer.inputSize, 0),
         At(layer.biases, i - 1))])

ReluOf(preActivation) ==
  Array([i \in 1..Len(preActivation) |-> relu(preActivation[i])])

\* the dense layer after the pass and the vector returned
DensePassed(layer, input, activated) ==
  [layer |-> [layer EXCEPT !.lastInput = Some(input), !.lastOutput = Some(activated)],
   out |-> activated]

\* AdvancedNetwork.forwardDenseLayer: softmax for the last layer of the
\* network, ReLU and dropout for the others
forwardDenseLayer(layer, input, training, isLast, seed, from) ==
  DensePassed(layer, input,
    IF isLast THEN softmax(DensePreActivation(layer, input))
    ELSE applyDropout(ReluOf(DensePreActivation(layer, input)),
                      layer.dropoutRate, training,
                      DropoutMask(layer.outputSize, layer.dropoutRate, seed, from)))

\* one layer of the forward pass
ForwardLayer(net, k, current, training, seed) ==
  IF IsLSTM(net.layers[k])
  THEN lstmForward(net.layers[k], current, training,
                   DropoutMask(Len(current), net.layers[k].dropoutRate, seed, 10 * k),
                   DropoutMask(net.layers[k].hiddenSize,
                               net.layers[k].dropoutRate, seed, 10 * k + 5))
  ELSE forwardDenseLayer(net.layers[k], current, training,
                         k = Len(net.layers), seed, 10 * k)

\* the layers k, k + 1, ... of the forward pass; r is the result of layer k
RECURSIVE ForwardLayers(_, _, _, _, _)
ForwardedLayer(net, k, r, training, seed) ==
  ForwardLayers([net EXCEPT !.layers[k] = r.layer], k + 1, r.out, training, seed)

ForwardLayers(net, k, current, training, seed) ==
  IF k > Len(net.layers) THEN [net |-> net, out |-> current]
  ELSE ForwardedLayer(net, k, ForwardLayer(net, k, current, training, seed),
                      training, seed)

\* Math.max(0.0001, Math.min(0.9999, p)), to the resolution of the numbers
Clipped(p) == IF IsNaN(p) THEN NaN ELSE MaxNum(1, MinNum(Scale - 1, p))

\* Math.log(clipped / (1 - clipped)) / temperature
Logit(p, temperature) ==
  Div(Sub(safeLog(Clipped(p)), safeLog(Sub(Scale, Clipped(p)))), temperature)

\* the temperature scaling of the output
Tempered(r, temperature) ==
  IF temperature # Scale /\ Len(r.out) > 0
  THEN [r EXCEPT !.out = softmax(Array([i \in 1..Len(r.out) |->
                                   Logit(r.out[i], temperature)]))]
  ELSE r

\* layer.resetState() for every LSTM layer
StatesReset(net) ==
  [net EXCEPT !.layers = Array([k \in 1..Len(net.layers) |->
     IF IsLSTM(net.layers[k]) THEN resetState(net.layers[k]) ELSE net.layers[k]])]

\* the forward pass from the embedding on
Embedded(net, input, training, temperature, seed) ==
  Tempered(ForwardLayers(net, 1,
                         IF net.useEmbeddings
                         THEN embeddingForward(net.embeddings[1], input)
                         ELSE input,
                         training, seed),
           temperature)

\* AdvancedNetwork.forward: the network after the pass and the output
forward(net, input, training, temperature, seed) ==
  Embedded(IF net.useLSTM /\ training THEN StatesReset(net) ELSE net,
           input, training, temperature, seed)

\* target.findIndex(v => v > 0) from position k on (0-based, -1 for none)
RECURSIVE FindPositive(_, _)
FindPositive(target, k) ==
  IF k >= Len(target) THEN -1
  ELSE IF Gt(target[k + 1], 0) THEN k ELSE FindPositive(target, k + 1)

\* the full cross-entropy sum over the positive entries of the target
RECURSIVE FullLoss(_, _, _)
FullLoss(predicted, target, i) ==
  IF i >= Len(target) THEN 0
  ELSE IF Gt(target[i + 1], 0)
  THEN Sub(FullLoss(predicted, target, i + 1),
           Mul(target[i + 1], safeLog(At(predicted, i))))
  ELSE FullLoss(predicted, target, i + 1)

\* AdvancedNetwork.crossEntropyLoss
crossEntropyLoss(predicted, target) ==
  IF FindPositive(target, 0) # -1
  THEN Sub(0, safeLog(At(predicted, FindPositive(target, 0))))
  ELSE FullLoss(predicted, target, 0)

\* AdvancedNetwork.outputGradients
outputGradients(predicted, target) ==
  Array([i \in 1..Len(predicted) |-> Sub(predicted[i], At(target, i - 1))])

\* one parameter's Adam step: the moments and the parameter after it
AdamStep(net, t, m, v, p, g) ==
  [m |-> Add(Mul(net.beta1, m), Mul(Sub(Scale, net.beta1), g)),
   v |-> Add(Mul(net.beta2, v), Mul(Mul(Sub(Scale, net.beta2), g), g)),
   p |-> Sub(p, Div(Mul(net.learningRate,
                        Div(Add(Mul(net.beta1, m), Mul(Sub(Scale, net.beta1), g)),
                            Sub(Scale, pow(net.beta1, t)))),
                    Add(sqrt(Div(Add(Mul(net.beta2, v),
                                     Mul(Mul(Sub(Scale, net.beta2), g), g)),
                                 Sub(Scale, pow(net.beta2, t)))),
                        net.epsilon)))]

\* the steps of the biases and of the weights of a dense layer
BiasSteps(net, t, layer, m, v, gradBiases) ==
  Array([i \in 1..layer.outputSize |->
     AdamStep(net, t, At(m.biases, i - 1), At(v.biases, i - 1),
              At(layer.biases, i - 1), At(gradBiases, i - 1))])

WeightSteps(net, t, layer, m, v, gradWeights) ==
  Array([i \in 1..layer.outputSize |->
     Array([j \in 1..layer.inputSize |->
        AdamStep(net, t, At(m.weights[i], j - 1), At(v.weights[i], j - 1),
                 At(layer.weights[i], j - 1), gradWeights[i][j])])])

\* the field of every step of a vector, of a matrix
FieldOf(steps, field) == Array([i \in 1..Len(steps) |-> steps[i][field]])

FieldsOf(steps, field) == Array([i \in 1..Len(steps) |-> FieldOf(steps[i], field)])

\* the network after the steps of layer `layerIndex` (1-based here)
AdamApplied(net, layerIndex, t, b, w) ==
  [net EXCEPT
     !.adamOptParams.t = t,
     !.adamOptParams.m[layerIndex] =
        Some([weights |-> FieldsOf(w, "m"), biases |-> FieldOf(b, "m")]),
     !.adamOptParams.v[layerIndex] =
        Some([weights |-> FieldsOf(w, "v"), biases |-> FieldOf(b, "v")]),
     !.layers[layerIndex].biases = FieldOf(b, "p"),
     !.layers[layerIndex].weights = FieldsOf(w, "p")]

\* AdamUpdate with the step counter already advanced to t
AdamAt(net, layerIndex, t, gradWeights, gradBiases) ==
  AdamApplied(net, layerIndex, t,
     BiasSteps(net, t, net.layers[layerIndex],
               net.adamOptParams.m[layerIndex][1],
               net.adamOptParams.v[layerIndex][1], gradBiases),
     WeightSteps(net, t, net.layers[layerIndex],
                 net.adamOptParams.m[layerIndex][1],
                 net.adamOptParams.v[layerIndex][1], gradWeights))

\* AdvancedNetwork.adamUpdate: this.adamOptParams.t += 1, then the steps
adamUpdate(net, layerIndex, gradWeights, gradBiases) ==
  AdamAt(net, layerIndex, net.adamOptParams.t + 1, gradWeights, gradBiases)

\* gradOutput, through the ReLU for every layer but the last
GradActivation(net, layerIndex, gradOutput) ==
  IF layerIndex = Len(net.layers) THEN gradOutput
  ELSE Array([i \in 1..Len(gradOutput) |->
          IF Gt(At(net.layers[layerIndex].lastOutput[1], i - 1), 0)
          THEN gradOutput[i] ELSE 0])

\* gradInput[j]: the sum over i, i + 1, ... < outputSize of
\* gradActivation[i] * layer.weights[i][j]
RECURSIVE DenseGradInputFrom(_, _, _, _)
DenseGradInputFrom(layer, gradActivation, j, i) ==
  IF i >= layer.outputSize THEN 0
  ELSE Add(Mul(At(gradActivation, i), At(layer.weights[i + 1], j)),
           DenseGradInputFrom(layer, gradActivation, j, i + 1))

\* backwardDenseLayer from the activation gradient on
DenseBackward(net, layerIndex, layer, gradActivation) ==
  [net |-> adamUpdate(net, layerIndex,
              Array([i \in 1..layer.outputSize |->
                 Array([j \in 1..layer.inputSize |->
                    Mul(At(gradActivation, i - 1),
                        At(layer.lastInput[1], j - 1))])]),
              Array([i \in 1..layer.outputSize |-> At(gradActivation, i - 1)])),
   threw |-> FALSE,
   out |-> Array([j \in 1..layer.inputSize |->
              DenseGradInputFrom(layer, gradActivation, j - 1, 0)])]

\* AdvancedNetwork.backwardDenseLayer
backwardDenseLayer(net, layerIndex, gradOutput) ==
  DenseBackward(net, layerIndex, net.layers[layerIndex],
                GradActivation(net, layerIndex, gradOutput))

\* the backward pass of an LSTM layer of the network; r is its result
LstmBackwarded(net, i, r) ==
  [net |-> [net EXCEPT !.layers[i] = r.layer], threw |-> r.threw, out |-> r.out]

\* the backward pass over the layers i, i - 1, ..., 1
RECURSIVE BackwardLayers(_, _, _)
BackwardedLayer(r, i) ==
  IF r.threw THEN r ELSE BackwardLayers(r.net, i - 1, r.out)

BackwardLayers(net, i, gradients) ==
  IF i < 1 THEN [net |-> net, threw |-> FALSE, out |-> gradients]
  ELSE BackwardedLayer(
         IF IsLSTM(net.layers[i])
         THEN LstmBackwarded(net, i,
                lstmBackward(net.layers[i], gradients, net.learningRate))
         ELSE backwardDenseLayer(net, i, gradients),
         i)

\* train after the embedding's update; e is the result of its backward
EmbeddingUpdated(net, loss, e) ==
  [net |-> [net EXCEPT !.embeddings = Some(e.layer)], loss |-> loss,
   threw |-> e.threw]

\* train after the backward pass over the layers; b is its result
LayersUpdated(b, input, loss) ==
  IF b.threw \/ ~b.net.useEmbeddings
  THEN [net |-> b.net, loss |-> loss, threw |-> b.threw]
  ELSE EmbeddingUpdated(b.net, loss,
         embeddingBackward(b.net.embeddings[1], input, b.out,
                           Mul(b.net.learningRate, Scale \div 10)))

\* train after the forward pass; f is its result
TrainForwarded(f, input, target) ==
  LayersUpdated(BackwardLayers(f.net, Len(f.net.layers),
                               outputGradients(f.out, target)),
                input, crossEntropyLoss(f.out, target))

\* AdvancedNetwork.train: the network after the call, the loss returned, and
\* whether the call raised an error
advancedTrain(net, input, target, seed) ==
  TrainForwarded(forward(net, input, TRUE, Scale, seed), input, target)

\* AdvancedNetwork.validate from example k on: the network after the forward
\* passes and the sum of the losses
RECURSIVE ValidateFrom(_, _, _, _)
Validated(f, examples, k, totalLoss) ==
  ValidateFrom(f.net, examples, k + 1,
               Add(totalLoss, crossEntropyLoss(f.out, examples[k].target)))

ValidateFrom(net, examples, k, totalLoss) ==
  IF k > Len(examples) THEN [net |-> net, totalLoss |-> totalLoss]
  ELSE Validated(forward(net, examples[k].input, FALSE, Scale, 0),
                 examples, k, totalLoss)

\* totalLoss / examples.length
Averaged(r, n) ==
  [net |-> r.net,
   loss |-> IF IsNaN(r.totalLoss) \/ n = 0 THEN NaN ELSE Quot(r.totalLoss, n)]

validate(net, examples) ==
  Averaged(ValidateFrom(net, examples, 1, 0), Len(examples))

\* [...examples].sort(() => Math.random() - 0.5): one of the orders the sort
\* can leave, chosen by the draws
RECURSIVE Reversed(_)
Reversed(x) == IF Len(x) = 0 THEN <<>> ELSE Reversed(Tail(x)) \o <<Head(x)>>

Shuffled(examples, seed, epoch) ==
  IF Draw(seed, epoch) > 0 THEN Reversed(examples) ELSE examples

\* the train calls of one epoch from example k on
RECURSIVE TrainFrom(_, _, _, _)
TrainedOne(r, shuffled, k, seed) ==
  IF r.threw THEN [net |-> r.net, threw |-> TRUE]
  ELSE TrainFrom(r.net, shuffled, k + 1, seed)

TrainFrom(net, shuffled, k, seed) ==
  IF k > Len(shuffled) THEN [net |-> net, threw |-> FALSE]
  ELSE TrainedOne(advancedTrain(net, shuffled[k].input, shuffled[k].target,
                                seed + k),
                  shuffled, k, seed)

\* a variant: an epoch that does not improve is not counted
patienceCounterFrozen(s, improved) ==
  IF improved THEN 0 ELSE s.patienceCounter

\* patienceCounter after the validation of an epoch
patienceCounter(s, improved) ==
  IF improved THEN 0 ELSE s.patienceCounter + 1

\* the loop of trainBatch after the validation of an epoch; w is its result
EpochValidated(s, c, w) ==
  [s EXCEPT !.net = w.net,
            !.validLosses = @ \o <<w.loss>>,
            !.bestLoss = IF Lt(w.loss, s.bestLoss) THEN w.loss ELSE @,
            !.patienceCounter = patienceCounter(s, Lt(w.loss, s.bestLoss)),
            !.stopped = ~Lt(w.loss, s.bestLoss)
                          /\ patienceCounter(s, Lt(w.loss, s.bestLoss))
                               >= c.earlyStoppingPatience]

\* the loop of trainBatch after the train calls of an epoch; r is their result
EpochTrained(s, c, r) ==
  IF r.threw THEN [s EXCEPT !.net = r.net, !.threw = TRUE]
  ELSE IF c.validationData # null
  THEN EpochValidated([s EXCEPT !.epochsRun = @ + 1], c,
                      validate(r.net, c.validationData[1]))
  ELSE [s EXCEPT !.net = r.net, !.epochsRun = @ + 1]

\* the loop of trainBatch from the given epoch on
RECURSIVE Epochs(_, _, _)
Epochs(s, c, epoch) ==
  IF epoch >= c.epochs \/ s.stopped \/ s.threw THEN s
  ELSE Epochs(EpochTrained(s, c,
                TrainFrom(s.net, Shuffled(c.examples, c.seed, epoch), 1,
                          c.seed + 2 * epoch)),
              c, epoch + 1)

\* trainBatch after the loop: the final validate on the examples
BatchReturned(s, w) ==
  [net |-> w.net, ret |-> w.loss, threw |-> FALSE,
   epochsRun |-> s.epochsRun, validLosses |-> s.validLosses]

BatchLooped(s, c) ==
  IF s.threw
  THEN [net |-> s.net, ret |-> 0, threw |-> TRUE,
        epochsRun |-> s.epochsRun, validLosses |-> s.validLosses]
  ELSE BatchReturned(s, validate(s.net, c.examples))

\* AdvancedNetwork.trainBatch with the default batch size: the network after
\* the call, the loss returned, the epochs whose train calls were all made and
\* the validation loss of each
trainBatch(net, examples, options, seed) ==
  BatchLooped(
    Epochs([net |-> net, bestLoss |-> Infinity, patienceCounter |-> 0,
            epochsRun |-> 0, validLosses |-> <<>>, stopped |-> FALSE,
            threw |-> FALSE],
           [examples |-> examples, seed |-> seed,
            epochs |-> Or(options.epochs, 1),
            validationData |-> options.validationData,
            earlyStoppingPatience |-> Or(options.earlyStoppingPatience, 5)],
           0),
    [examples |-> examples])

\* the output layer with the rows and biases of the new outputs
OutputGrown(layer, newVocabSize, vocabSize, seed) ==
  [layer EXCEPT
     !.weights = @ \o Array([r \in 1..(newVocabSize - vocabSize) |->
                    Array([j \in 1..layer.inputSize |->
                       SmallDraw(seed, 3 * r + j)])]),
     !.biases = @ \o Zeros(newVocabSize - vocabSize),
     !.outputSize = newVocabSize]

\* a variant: the accumulators of Adam stay as they are
resizeKeepingAdam(net, newVocabSize, seed) ==
  IF newVocabSize <= net.vocabSize THEN [net |-> net, threw |-> FALSE]
  ELSE IF Len(net.layers) = 0 THEN [net |-> net, threw |-> TRUE]
  ELSE [net |-> [net EXCEPT
                          !.embeddings =
                             IF net.useEmbeddings
                             THEN Some(embeddingResize(@[1], newVocabSize, seed))
                             ELSE @,
                          !.layers[Len(net.layers)] =
                             OutputGrown(@, newVocabSize, net.vocabSize, seed),
                          !.vocabSize = newVocabSize],
        threw |-> FALSE]

\* AdvancedNetwork.resize: a TypeError, and nothing changed, for a network
\* without layers
advancedResize(net, newVocabSize, seed) ==
  IF newVocabSize <= net.vocabSize THEN [net |-> net, threw |-> FALSE]
  ELSE IF Len(net.layers) = 0 THEN [net |-> net, threw |-> TRUE]
  ELSE [net |-> initAdamParams(
                  [net EXCEPT
                     !.embeddings =
                        IF net.useEmbeddings
                        THEN Some(embeddingResize(@[1], newVocabSize, seed))
                        ELSE @,
                     !.layers[Len(net.layers)] =
                        OutputGrown(@, newVocabSize, net.vocabSize, seed),
                     !.vocabSize = newVocabSize]),
        threw |-> FALSE]

\* the configuration of a network: the values the constructor reads
Config(vocabSize, hiddenSizes, dropout, useEmbeddings, useLSTM) ==
  [vocabSize |-> vocabSize, embeddingDim |-> 1, hiddenSizes |-> hiddenSizes,
   dropout |-> dropout, learningRate |-> Scale \div 2,
   beta1 |-> (9 * Scale) \div 10, beta2 |-> 1, epsilon |-> 1, useEmbeddings |-> useEmbeddings, useLSTM |-> useLSTM]

\* a network of vocabulary 0 without embeddings: no layer is built
Unbuilt == AdvancedNetwork(Config(0, <<>>, 0, FALSE, FALSE), 0)

\* ------------------------------------------------------------------------
\* The state machine
\* ------------------------------------------------------------------------
VARIABLES
  inputSize,             \* NeuralNetwork.inputSize
  outputSize,            \* NeuralNetwork.outputSize
  layers,                \* NeuralNetwork.layers: the hidden layers
  outputLayer,           \* NeuralNetwork.outputLayer
  associationStrengths,  \* NeuralNetwork.associationStrengths
  trainingAttempts,      \* NeuralNetwork.trainingAttempts
  pairs,                 \* history: the (inputWord, outputWord) pairs tracked
  calls,                 \* history: the trackAssociation calls made per pair
  embedding,             \* an EmbeddingLayer, an object of its own: the
                         \* calls of the network leave it as constructed
  lstm,                  \* an LSTMLayer, likewise
  advanced,              \* an AdvancedNetwork, likewise
  last,                  \* history: the last call, its arguments and outcome
  ops                    \* history: the number of calls made

vars == <<inputSize, outputSize, layers, outputLayer, associationStrengths,
          trainingAttempts, pairs, calls, embedding, lstm, advanced, last,
          ops>>

\* the network object
This ==
  [inputSize |-> inputSize, outputSize |-> outputSize, layers |-> layers,
   outputLayer |-> outputLayer,
   associationStrengths |-> associationStrengths,
   trainingAttempts |-> trainingAttempts]

Becomes(nn) ==
  /\ inputSize' = nn.inputSize
  /\ outputSize' = nn.outputSize
  /\ layers' = nn.layers
  /\ outputLayer' = nn.outputLayer
  /\ associationStrengths' = nn.associationStrengths
  /\ trainingAttempts' = nn.trainingAttempts

\* the record of a call: every field is present for every call
NoCall ==
  [op |-> "new", before |-> <<>>, inputs |-> <<>>, expectedOutputs |-> <<>>,
   inputWord |-> <<>>, outputWord |-> <<>>, number |-> 0, targetError |-> 0,
   threw |-> FALSE, caught |-> FALSE, ret |-> 0, attempts |-> 0,
   success |-> FALSE, errors |-> <<>>, events |-> <<>>, out |-> <<>>,
   outputMultiplier |-> 0, hiddenMultiplier |-> 0, conflicting |-> FALSE,
   training |-> FALSE, options |-> <<>>, epochsRun |-> 0,
   validLosses |-> <<>>]

OneHot(len, hot) == Array([i \in 1..len |-> IF i = hot THEN Scale ELSE 0])

\* The training examples <<inputs, expectedOutputs>>: both one-hot of length
\* MaxLen in the three combinations of hot indices that differ, the input or
\* the target one shorter, the input or the target empty, an all-zero target.
Examples ==
  { <<OneHot(MaxLen, 1), OneHot(MaxLen, MaxLen)>>,
    <<OneHot(MaxLen, 1), OneHot(MaxLen, 1)>>,
    <<OneHot(MaxLen, MaxLen), OneHot(MaxLen, 1)>>,
    <<OneHot(MaxLen - 1, 1), OneHot(MaxLen, MaxLen)>>,
    <<OneHot(MaxLen, MaxLen), OneHot(MaxLen - 1, 1)>>,
    <<<<>>, OneHot(MaxLen, MaxLen)>>,
    <<OneHot(MaxLen, 1), <<>>>>,
    <<OneHot(MaxLen, 1), Zeros(MaxLen)>> }

InputVectors == {e[1] : e \in Examples}

\* the vocabulary: the word of an index
InputWords == <<<<"a">>, <<"b">>, <<"c">>, <<"d">>>>

OutputWords == <<<<"x">>, <<"y">>, <<"z">>, <<"w">>>>

\* the label of a vector: the word of its highest index, "" when it has none
WordOf(words, vector) ==
  LET i == findHighestIndex(vector)
  IN  IF i >= 0 /\ i < Len(words) THEN words[i + 1] ELSE <<>>

\* the draws a call can make: none unless it grows the network
SeedsFor(inputs, expectedOutputs) ==
  IF Len(inputs) > inputSize \/ Len(expectedOutputs) > outputSize
  THEN Seeds ELSE {0}

\* the networks the program builds: <<inputSize, hiddenSizes, outputSize>>
Shapes == {<<2, <<2>>, 2>>, <<1, <<2, 1>>, 1>>}

\* a network of one of the shapes, just constructed, and no call made
Constructed(shapes) ==
  /\ \E shape \in shapes :
       LET nn == NeuralNetwork(shape[1], shape[2], shape[3], 0)
       IN  /\ inputSize = nn.inputSize
           /\ outputSize = nn.outputSize
           /\ layers = nn.layers
           /\ outputLayer = nn.outputLayer
           /\ associationStrengths = nn.associationStrengths
           /\ trainingAttempts = nn.trainingAttempts
  /\ pairs = {}
  /\ calls = <<>>
  /\ last = NoCall
  /\ ops = 0

InitWith(shapes) ==
  /\ Constructed(shapes)
  /\ embedding = EmbeddingLayer(0, 0, null, 0)
  /\ lstm = LSTMLayer(0, 0, 0, 0)
  /\ advanced = Unbuilt

Init == InitWith(Shapes)

\* one more trackAssociation call counted for the pair p
Counted(count, p) ==
  [q \in DOMAIN count \cup {p} |->
     (IF q \in DOMAIN count THEN count[q] ELSE 0) + (IF q = p THEN 1 ELSE 0)]

\* one more call of a method of the network; the other objects stay
Called(max) == ops < max /\ ops' = ops + 1 /\ UNCHANGED <<embedding, lstm, advanced>>

\* a session that reached a trackAssociation call
Tracked(events) == \E i \in 1..Len(events) : events[i][1] = "track"

\* network.resize(newInputSize, newOutputSize)
Resize ==
  ops < MaxOps /\
  \E newInputSize \in 0..(MaxLen + 1), newOutputSize \in 0..(MaxLen + 1) :
    \E seed \in SeedsFor(Zeros(newInputSize), Zeros(newOutputSize)) :
      \E r \in {resize(This, newInputSize, newOutputSize, seed)} :
          /\ Called(MaxOps)
          /\ Becomes(r.nn)
          /\ last' = [NoCall EXCEPT !.op = "resize", !.before = This,
                                    !.number = newInputSize,
                                    !.ret = newOutputSize, !.threw = r.threw]
          /\ UNCHANGED <<pairs, calls>>

\* network.feedForward(inputs)
FeedForward ==
  ops < MaxOps /\
  \E inputs \in InputVectors :
    \E r \in {feedForward(This, inputs)} :
        /\ Called(MaxOps)
        /\ Becomes(r.nn)
        /\ last' = [NoCall EXCEPT !.op = "feedForward", !.before = This,
                                  !.inputs = inputs, !.out = r.out]
        /\ UNCHANGED <<pairs, calls>>

\* the record of a train call
TrainCall(inputs, expectedOutputs, inputWord, outputWord, reinforcementFactor, r) ==
  [NoCall EXCEPT !.op = "train", !.before = This, !.inputs = inputs,
                 !.expectedOutputs = expectedOutputs,
                 !.inputWord = inputWord, !.outputWord = outputWord,
                 !.number = reinforcementFactor,
                 !.ret = r.ret, !.caught = r.caught,
                 !.outputMultiplier = r.outputMultiplier,
                 !.hiddenMultiplier = r.hiddenMultiplier]

\* network.train(inputs, expectedOutputs, inputWord, outputWord, factor)
Train ==
  ops < MaxOps /\
  \E e \in Examples, reinforcementFactor \in {Scale, 3 * Scale} :
    \E seed \in SeedsFor(e[1], e[2]) :
      \E inputWord \in {WordOf(InputWords, e[1])},
         outputWord \in {WordOf(OutputWords, e[2])} :
        \E r \in {train(This, e[1], e[2], inputWord, outputWord,
                        reinforcementFactor, seed)} :
          /\ Called(MaxOps)
          /\ Becomes(r.nn)
          /\ last' = TrainCall(e[1], e[2], inputWord, outputWord,
                               reinforcementFactor, r)
          /\ UNCHANGED <<pairs, calls>>

\* network.trainUntilLearned(inputs, expectedOutputs, inputWord, outputWord,
\*                           maxAttempts, targetError)
TrainUntilLearned ==
  ops < MaxOps /\
  \E e \in Examples, maxAttempts \in 0..MaxAttempts, targetError \in {1} :
    \E seed \in SeedsFor(e[1], e[2]) :
      \E inputWord \in {WordOf(InputWords, e[1])},
         outputWord \in {WordOf(OutputWords, e[2])} :
        \E s \in {trainUntilLearned(This, e[1], e[2], inputWord, outputWord,
                                    maxAttempts, targetError, seed)} :
          /\ Called(MaxOps)
          /\ Becomes(s.nn)
          /\ last' = [NoCall EXCEPT
                        !.op = "trainUntilLearned", !.before = This,
                        !.inputs = e[1], !.expectedOutputs = e[2],
                        !.inputWord = inputWord, !.outputWord = outputWord,
                        !.number = maxAttempts, !.targetError = targetError,
                        !.threw = s.threw, !.ret = s.lastError,
                        !.attempts = s.attempts, !.success = s.success,
                        !.errors = s.errors, !.events = s.events,
                        !.conflicting =
                           isConflictingAssociation(This, inputWord, outputWord)]
          /\ pairs' = IF Tracked(s.events)
                      THEN pairs \cup {<<inputWord, outputWord>>} ELSE pairs
          /\ calls' = IF Tracked(s.events)
                      THEN Counted(calls, <<inputWord, outputWord>>) ELSE calls

\* network.forceAssociation(inputs, expectedOutputs)
ForceAssociation ==
  ops < MaxOps /\
  \E e \in Examples :
    \E r \in {forceAssociation(This, e[1], e[2], 5 * Scale)} :
        /\ Called(MaxOps)
        /\ Becomes(r.nn)
        /\ last' = [NoCall EXCEPT !.op = "forceAssociation", !.before = This,
                                  !.inputs = e[1], !.expectedOutputs = e[2],
                                  !.number = 5 * Scale, !.threw = r.threw]
        /\ UNCHANGED <<pairs, calls>>

\* network.createDirectConnection(inputs, expectedOutputs)
CreateDirectConnection ==
  ops < MaxOps /\
  \E e \in Examples :
    \E r \in {createDirectConnection(This, e[1], e[2], 50 * Scale)} :
        /\ Called(MaxOps)
        /\ Becomes(r.nn)
        /\ last' = [NoCall EXCEPT !.op = "createDirectConnection",
                                  !.before = This, !.inputs = e[1],
                                  !.expectedOutputs = e[2],
                                  !.number = 50 * Scale, !.threw = r.threw]
        /\ UNCHANGED <<pairs, calls>>

Next ==
  \/ Resize
  \/ FeedForward
  \/ Train
  \/ TrainUntilLearned
  \/ ForceAssociation
  \/ CreateDirectConnection

Spec == Init /\ [][Next]_vars

\* ------------------------------------------------------------------------
\* A training run
\* ------------------------------------------------------------------------
\* The calls of a training run only: resize, train, trainUntilLearned.
TrainingNext ==
  \/ Resize
  \/ Train
  \/ TrainUntilLearned

TrainingSpec == Init /\ [][TrainingNext]_vars

\* ------------------------------------------------------------------------
\* The association memory on its own
\* ------------------------------------------------------------------------
\* the pairs tracked: labels with the delimiter in them, two of the pairs
\* with the same key
MemPairs == { <<<<"a">>, <<"x">>>>, <<<<"a">>, <<"b", ":", "x">>>>,
              <<<<"a", ":", "b">>, <<"x">>>> }

\* the pairs asked about
MemQueries == { <<<<"a">>, <<"x">>>>, <<<<"a">>, <<"b", ":", "x">>>>,
                <<<<"a">>, <<"y">>>> }

MemInit == InitWith({<<2, <<2>>, 2>>})

\* network.trackAssociation(inputWord, outputWord, success)
TrackAssociation ==
  ops < MaxTracks /\
  \E p \in MemPairs, success \in BOOLEAN :
    \E nn \in {trackAssociation(This, p[1], p[2], success)} :
        /\ Called(MaxTracks)
        /\ Becomes(nn)
        /\ last' = [NoCall EXCEPT !.op = "trackAssociation",
                                  !.inputWord = p[1], !.outputWord = p[2],
                                  !.success = success]
        /\ pairs' = pairs \cup {p}
        /\ calls' = Counted(calls, p)

\* network.isConflictingAssociation(inputWord, targetWord): reads only
IsConflictingAssociation ==
  \E q \in MemQueries :
    /\ last' = [NoCall EXCEPT !.op = "isConflictingAssociation",
                              !.inputWord = q[1], !.outputWord = q[2],
                              !.conflicting =
                                 isConflictingAssociation(This, q[1], q[2])]
    /\ UNCHANGED <<inputSize, outputSize, layers, outputLayer,
                   associationStrengths, trainingAttempts, pairs, calls, embedding,
                   lstm, advanced, ops>>

\* network.calculateReinforcement(inputWord, outputWord): reads only
CalculateReinforcement ==
  \E p \in MemPairs :
    /\ last' = [NoCall EXCEPT !.op = "calculateReinforcement",
                              !.before = This,
                              !.inputWord = p[1], !.outputWord = p[2],
                              !.ret = calculateReinforcement(This, p[1], p[2])]
    /\ UNCHANGED <<inputSize, outputSize, layers, outputLayer,
                   associationStrengths, trainingAttempts, pairs, calls, embedding,
                   lstm, advanced, ops>>

MemNext ==
  \/ TrackAssociation
  \/ IsConflictingAssociation
  \/ CalculateReinforcement

MemSpec == MemInit /\ [][MemNext]_vars

\* ------------------------------------------------------------------------
\* One train call on a network with a memory
\* ------------------------------------------------------------------------
\* the memory after outcomes[1..n] of one pair have been tracked
RECURSIVE TrackedFrom(_, _, _, _)
TrackedFrom(nn, pair, outcomes, n) ==
  IF n = 0 THEN nn
  ELSE trackAssociation(TrackedFrom(nn, pair, outcomes, n - 1),
                        pair[1], pair[2], outcomes[n])

\* the pairs with a history: the labels of the first example, and a pair
\* with an empty input label
ReinforcePairs == { <<InputWords[1], OutputWords[MaxLen]>>,
                    <<<<>>, OutputWords[MaxLen]>> }

ReinforceInit ==
  /\ \E pair \in ReinforcePairs, n \in 0..MaxTracks :
       \E outcomes \in [1..n -> BOOLEAN] :
         \E nn \in {TrackedFrom(NeuralNetwork(2, <<2>>, 2, 0), pair,
                                outcomes, n)} :
           /\ inputSize = nn.inputSize
           /\ outputSize = nn.outputSize
           /\ layers = nn.layers
           /\ outputLayer = nn.outputLayer
           /\ associationStrengths = nn.associationStrengths
           /\ trainingAttempts = nn.trainingAttempts
           /\ pairs = IF n = 0 THEN {} ELSE {pair}
           /\ calls = [p \in (IF n = 0 THEN {} ELSE {pair}) |-> n]
  /\ embedding = EmbeddingLayer(0, 0, null, 0)
  /\ lstm = LSTMLayer(0, 0, 0, 0)
  /\ advanced = Unbuilt
  /\ last = NoCall
  /\ ops = 0

\* the first call of a run is a train call
ReinforceNext == ops = 0 /\ Train

ReinforceSpec == ReinforceInit /\ [][ReinforceNext]_vars

\* ------------------------------------------------------------------------
\* The embedding layer on its own
\* ------------------------------------------------------------------------
\* the stores of pre-trained vectors of an embeddingDim layer: none, one of
\* the layer's dimension that knows the word "a", one of another dimension
Stores(embeddingDim) ==
  { null,
    Some(WordEmbeddings(embeddingDim, [w \in {"a"} |-> OneHot(embeddingDim, 1)])),
    Some(WordEmbeddings(embeddingDim + 1, [w \in {} |-> <<>>])) }

\* the vocabularies loaded: one word at any index up to past the table, two
\* words, and a word no store knows
Vocabularies ==
  { <<<<"a", i>>>> : i \in 0..(MaxVocab + 1) }
    \cup { <<<<"a", 0>>, <<"b", MaxVocab + 1>>>>, <<<<"b", 0>>>> }

\* the index lists looked up: none, every single index from -1 to past the
\* largest table, and a list of two
IndexLists ==
  { <<>>, <<0, MaxVocab + 2>> } \cup { <<i>> : i \in (-1)..(MaxVocab + 2) }

\* the one-hot inputs of backward, and an all-zero one
BackwardInputs ==
  { OneHot(len, 1) : len \in 1..(MaxVocab + 1) }
    \cup { OneHot(len, len) : len \in 1..(MaxVocab + 1) }
    \cup { Zeros(MaxVocab) }

Gradients == { Zeros(MaxDim), OneHot(MaxDim, 1), <<Scale>> }

EmbeddingInit ==
  /\ Constructed({<<2, <<2>>, 2>>})
  /\ \E vocabSize \in 0..MaxVocab, embeddingDim \in 1..MaxDim :
       \E wordEmbeddingDb \in Stores(embeddingDim) :
         embedding = EmbeddingLayer(vocabSize, embeddingDim, wordEmbeddingDb, 0)
  /\ lstm = LSTMLayer(0, 0, 0, 0)
  /\ advanced = Unbuilt

\* one more call of a method of a layer; the network stays
LayerCalled ==
  /\ ops < MaxLayerOps
  /\ ops' = ops + 1
  /\ UNCHANGED <<inputSize, outputSize, layers, outputLayer,
                 associationStrengths, trainingAttempts, pairs, calls,
                 advanced>>

\* embedding.resize(newVocabSize)
EmbeddingResize ==
  ops < MaxLayerOps /\
  \E newVocabSize \in 0..(MaxVocab + 2), seed \in Seeds :
    /\ LayerCalled
    /\ embedding' = embeddingResize(embedding, newVocabSize, seed)
    /\ last' = [NoCall EXCEPT !.op = "embedding.resize", !.before = embedding,
                              !.number = newVocabSize]
    /\ UNCHANGED lstm

\* await embedding.loadPretrainedEmbeddings(vocabulary)
LoadPretrainedEmbeddings ==
  ops < MaxLayerOps /\
  \E vocabulary \in Vocabularies :
    \E r \in {loadPretrainedEmbeddings(embedding, vocabulary)} :
      /\ LayerCalled
      /\ embedding' = r.layer
      /\ last' = [NoCall EXCEPT !.op = "loadPretrainedEmbeddings",
                                !.before = embedding, !.inputs = vocabulary,
                                !.success = r.ret]
      /\ UNCHANGED lstm

\* embedding.backward(input, gradients, learningRate)
EmbeddingBackward ==
  ops < MaxLayerOps /\
  \E input \in BackwardInputs, gradients \in Gradients :
    \E r \in {embeddingBackward(embedding, input, gradients, Scale)} :
      /\ LayerCalled
      /\ embedding' = r.layer
      /\ last' = [NoCall EXCEPT !.op = "embedding.backward",
                                !.before = embedding, !.inputs = input,
                                !.threw = r.threw]
      /\ UNCHANGED lstm

\* embedding.lookup(indices): reads only
Lookup ==
  \E indices \in IndexLists :
    /\ last' = [NoCall EXCEPT !.op = "lookup", !.before = embedding,
                              !.inputs = indices,
                              !.out = lookup(embedding, indices)]
    /\ UNCHANGED <<inputSize, outputSize, layers, outputLayer,
                   associationStrengths, trainingAttempts, pairs, calls,
                   embedding, lstm, advanced, ops>>

EmbeddingNext ==
  \/ EmbeddingResize
  \/ LoadPretrainedEmbeddings
  \/ EmbeddingBackward
  \/ Lookup

EmbeddingSpec == EmbeddingInit /\ [][EmbeddingNext]_vars

\* ------------------------------------------------------------------------
\* The LSTM layer on its own
\* ------------------------------------------------------------------------
\* the dropout rates: none, and the default 0.2
DropoutRates == {0, Scale \div 5}

\* the input vectors of forward: of every length up to one past inputSize
LstmInputs == { OneHot(len, len) : len \in 1..(MaxDim + 1) }

\* the draws of a dropout over len elements: all kept, or the first dropped
Masks(len) ==
  { Filled(len, TRUE), Array([i \in 1..len |-> i > 1]) }

\* the draws that matter to a forward call
MasksFor(len, training) ==
  IF training /\ lstm.dropoutRate > 0 THEN Masks(len) ELSE {Filled(len, TRUE)}

\* the gradients of backward: of every length up to one past hiddenSize
GradOutputs ==
  { <<>>, <<Scale>>, <<Scale, -Scale>> }
    \cup { OneHot(MaxHidden + 1, 1) }

LstmInit ==
  /\ Constructed({<<2, <<2>>, 2>>})
  /\ embedding = EmbeddingLayer(0, 0, null, 0)
  /\ \E inputSize_ \in 1..MaxDim, hiddenSize \in 0..MaxHidden :
       \E dropoutRate \in DropoutRates :
         lstm = LSTMLayer(inputSize_, hiddenSize, dropoutRate, 0)
  /\ advanced = Unbuilt

\* lstm.forward(input, training)
LstmForward ==
  ops < MaxLayerOps /\
  \E input \in LstmInputs, training \in BOOLEAN :
    \E inMask \in MasksFor(Len(input), training) :
      \E outMask \in MasksFor(lstm.hiddenSize, training) :
        \E r \in {lstmForward(lstm, input, training, inMask, outMask)} :
          /\ LayerCalled
          /\ lstm' = r.layer
          /\ last' = [NoCall EXCEPT !.op = "lstm.forward", !.before = lstm,
                                    !.inputs = input, !.out = r.out]
          /\ UNCHANGED embedding

\* lstm.backward(gradOutput, learningRate)
LstmBackward ==
  ops < MaxLayerOps /\
  \E gradOutput \in GradOutputs :
    \E r \in {lstmBackward(lstm, gradOutput, Scale \div 2)} :
      /\ LayerCalled
      /\ lstm' = r.layer
      /\ last' = [NoCall EXCEPT !.op = "lstm.backward", !.before = lstm,
                                !.inputs = gradOutput, !.threw = r.threw,
                                !.out = r.out]
      /\ UNCHANGED embedding

\* lstm.resetState()
ResetState ==
  /\ LayerCalled
  /\ lstm' = resetState(lstm)
  /\ last' = [NoCall EXCEPT !.op = "resetState", !.before = lstm]
  /\ UNCHANGED embedding

LstmNext ==
  \/ LstmForward
  \/ LstmBackward
  \/ ResetState

LstmSpec == LstmInit /\ [][LstmNext]_vars

\* ------------------------------------------------------------------------
\* The advanced network on its own
\* ------------------------------------------------------------------------
\* the networks built: recurrent with one hidden layer, dense with one hidden
\* layer, dense with the output layer only, and one without embeddings
Configs ==
  { Config(MaxVocab, <<1>>, 0, TRUE, TRUE),
    Config(MaxVocab, <<1>>, 0, TRUE, FALSE),
    Config(MaxVocab, <<>>, 0, TRUE, FALSE),
    Config(MaxVocab, <<1>>, 0, FALSE, TRUE) }

\* the one-hot vectors of the vocabulary and of the vocabulary grown by one
AdvancedInputs ==
  { OneHot(MaxVocab, hot) : hot \in 1..MaxVocab }
    \cup { OneHot(MaxVocab + 1, MaxVocab + 1) }

Example(input, target) == [input |-> input, target |-> target]

\* the example lists of trainBatch: one example, and two
ExampleLists ==
  { <<Example(OneHot(MaxVocab, 1), OneHot(MaxVocab, MaxVocab))>>,
    <<Example(OneHot(MaxVocab, 1), OneHot(MaxVocab, MaxVocab)),
      Example(OneHot(MaxVocab, MaxVocab), OneHot(MaxVocab, 1))>> }

\* the validation data of trainBatch: absent, empty, and two examples
ValidationData ==
  { null, Some(<<>>),
    Some(<<Example(OneHot(MaxVocab, 1), OneHot(MaxVocab, 1)),
           Example(OneHot(MaxVocab, MaxVocab), OneHot(MaxVocab, 1))>>) }

\* the options of trainBatch: epochs and patience from 0 (taken as absent)
\* up, with and without validation data
BatchOptions ==
  { [epochs |-> epochs, earlyStoppingPatience |-> patience,
     validationData |-> validationData] :
      epochs \in 0..MaxEpochs, patience \in 0..MaxPatience,
      validationData \in ValidationData }

AdvancedInit ==
  /\ Constructed({<<2, <<2>>, 2>>})
  /\ embedding = EmbeddingLayer(0, 0, null, 0)
  /\ lstm = LSTMLayer(0, 0, 0, 0)
  /\ \E config \in Configs :
       advanced = AdvancedNetwork(config, 0)

\* one more call of a method of the advanced network; the other objects stay
AdvancedCalled ==
  /\ ops < MaxAdvancedOps
  /\ ops' = ops + 1
  /\ UNCHANGED <<inputSize, outputSize, layers, outputLayer,
                 associationStrengths, trainingAttempts, pairs, calls,
                 embedding, lstm>>

\* advanced.forward(input, training, temperature)
AdvancedForward ==
  ops < MaxAdvancedOps /\
  \E input \in AdvancedInputs, training \in BOOLEAN :
    \E temperature \in {Scale, 2 * Scale}, seed \in {0} :
      \E r \in {forward(advanced, input, training, temperature, seed)} :
        /\ AdvancedCalled
        /\ advanced' = r.net
        /\ last' = [NoCall EXCEPT !.op = "advanced.forward",
                                  !.before = advanced, !.inputs = input,
                                  !.training = training,
                                  !.number = temperature, !.out = r.out]

\* advanced.train(input, target)
AdvancedTrain ==
  ops < MaxAdvancedOps /\
  \E input \in AdvancedInputs, target \in AdvancedInputs, seed \in Seeds :
    \E r \in {advancedTrain(advanced, input, target, seed)} :
      /\ AdvancedCalled
      /\ advanced' = r.net
      /\ last' = [NoCall EXCEPT !.op = "advanced.train", !.before = advanced,
                                !.inputs = input, !.expectedOutputs = target,
                                !.ret = r.loss, !.threw = r.threw]

\* advanced.trainBatch(examples, options)
AdvancedTrainBatch ==
  ops < MaxAdvancedOps /\
  \E examples \in ExampleLists, options \in BatchOptions, seed \in {0} :
    \E r \in {trainBatch(advanced, examples, options, seed)} :
      /\ AdvancedCalled
      /\ advanced' = r.net
      /\ last' = [NoCall EXCEPT !.op = "advanced.trainBatch",
                                !.before = advanced, !.inputs = examples,
                                !.options = options, !.ret = r.ret,
                                !.threw = r.threw, !.epochsRun = r.epochsRun,
                                !.validLosses = r.validLosses]

\* advanced.resize(newVocabSize)
AdvancedResize ==
  ops < MaxAdvancedOps /\
  \E newVocabSize \in 0..(MaxVocab + 1), seed \in {0} :
    \E r \in {advancedResize(advanced, newVocabSize, seed)} :
      /\ AdvancedCalled
      /\ advanced' = r.net
      /\ last' = [NoCall EXCEPT !.op = "advanced.resize", !.before = advanced,
                                !.number = newVocabSize, !.threw = r.threw]

AdvancedNext ==
  \/ AdvancedForward
  \/ AdvancedTrain
  \/ AdvancedTrainBatch
  \/ AdvancedResize

AdvancedSpec == AdvancedInit /\ [][AdvancedNext]_vars

\* ------------------------------------------------------------------------
\* Vocabulary of the properties
\* ------------------------------------------------------------------------
IsCall(name) == last.op = name

\* the number of events of a session with the given name
Count(events, name) ==
  Cardinality({i \in 1..Len(events) : events[i][1] = name})

\* the units of a network: <<0, u>> in the output layer, <<l, u>> in hidden
\* layer l
Units(nn) ==
  {<<0, u>> : u \in 1..Len(nn.outputLayer)}
    \cup UNION {{<<l, u>> : u \in 1..Len(nn.layers[l])} : l \in 1..Len(nn.layers)}

Unit(nn, p) == IF p[1] = 0 THEN nn.outputLayer[p[2]] ELSE nn.layers[p[1]][p[2]]

\* what a network has learned: sizes, and per unit the weights, the bias, the
\* learning rate and the momentum deltas (not the caches of the last pass)
Learned(n) ==
  [weights |-> n.weights, bias |-> n.bias, learningRate |-> n.learningRate,
   prevWeightDeltas |-> n.prevWeightDeltas, prevBiasDelta |-> n.prevBiasDelta]

Parameters(nn) ==
  [inputSize |-> nn.inputSize, outputSize |-> nn.outputSize,
   units |-> [p \in Units(nn) |-> Learned(Unit(nn, p))]]

\* the network predicts the target of the call at the call's entry
EntryCorrect(call) ==
  findHighestIndex(feedForward(call.before, call.inputs).out)
    = findHighestIndex(call.expectedOutputs)

AllAtBaseRate(nn) ==
  \A p \in Units(nn) : Unit(nn, p).learningRate = BaseLearningRate

\* ------------------------------------------------------------------------
\* C1
\* ------------------------------------------------------------------------
\* C1: a trainUntilLearned call on a network that already predicts the target
\* returns attempts 0 and success, calls none of train, forceAssociation and
\* createDirectConnection, leaves sizes, weights, biases, learning rates and
\* momentum deltas as they were, and tracks the pair once, as a success.
C1_AlreadyCorrectOnlyTracks ==
  IsCall("trainUntilLearned") /\ EntryCorrect(last) =>
    /\ ~last.threw
    /\ last.attempts = 0
    /\ last.success
    /\ last.ret = 0
    /\ Count(last.events, "train") = 0
    /\ Count(last.events, "force") = 0
    /\ Count(last.events, "direct") = 0
    /\ Count(last.events, "boost") = 0
    /\ Count(last.events, "track") = 1
    /\ Parameters(This) = Parameters(last.before)
    /\ LET tracked == trackAssociation(last.before, last.inputWord,
                                       last.outputWord, TRUE)
       IN  /\ associationStrengths = tracked.associationStrengths
           /\ trainingAttempts = tracked.trainingAttempts

\* an already-correct call that was allowed attempts, on a network that an
\* earlier call has changed
C1_Witness ==
  /\ IsCall("trainUntilLearned")
  /\ EntryCorrect(last)
  /\ last.number >= 1
  /\ ops = 2
  /\ Key(last.inputWord, last.outputWord) \in DOMAIN associationStrengths

\* ------------------------------------------------------------------------
\* C2
\* ------------------------------------------------------------------------
\* C2: a trainUntilLearned call makes at most maxAttempts train calls, at most
\* floor(maxAttempts / 3) forceAssociation calls and at most one
\* createDirectConnection call, and the attempts it returns are the train calls
\* it made, between 0 and maxAttempts.
C2_WorkBoundedByMaxAttempts ==
  IsCall("trainUntilLearned") =>
    /\ Count(last.events, "train") <= last.number
    /\ Count(last.events, "force") <= last.number \div 3
    /\ Count(last.events, "direct") <= 1
    /\ ~last.threw =>
         /\ 0 <= last.attempts
         /\ last.attempts <= last.number
         /\ last.attempts = Count(last.events, "train")

\* a session that used every attempt, forced once and ended in the last resort
C2_Witness ==
  /\ IsCall("trainUntilLearned")
  /\ last.number >= 3
  /\ Count(last.events, "train") = last.number
  /\ Count(last.events, "force") = last.number \div 3
  /\ Count(last.events, "direct") = 1
  /\ ~last.threw

\* ------------------------------------------------------------------------
\* C3
\* ------------------------------------------------------------------------
\* C3: whenever trainUntilLearned returns, by the early exit, by success in
\* the loop or by exhaustion, every unit of every hidden layer and of the
\* output layer, the units appended during the call included, has its
\* learning rate at baseLearningRate.
C3_RatesResetOnReturn ==
  IsCall("trainUntilLearned") /\ ~last.threw => AllAtBaseRate(This)

\* a session that boosted the rates, trained, and returned with more output
\* units than the network had at its entry
C3_Witness ==
  /\ IsCall("trainUntilLearned")
  /\ ~last.threw
  /\ Count(last.events, "boost") = 1
  /\ last.attempts >= 1
  /\ Len(outputLayer) > Len(last.before.outputLayer)

\* ------------------------------------------------------------------------
\* C4
\* ------------------------------------------------------------------------
\* C4: after construction and after any sequence of resize, train and
\* trainUntilLearned calls every unit of the first hidden layer has exactly
\* inputSize weights, every unit of a later hidden layer has as many weights
\* as the layer before it has units, and every output unit has as many
\* weights as the last hidden layer has units.
C4_ShapeMatchesSizes ==
  /\ \A u \in 1..Len(layers[1]) : Len(layers[1][u].weights) = inputSize
  /\ \A l \in 2..Len(layers) : \A u \in 1..Len(layers[l]) :
       Len(layers[l][u].weights) = Len(layers[l - 1])
  /\ \A u \in 1..Len(outputLayer) :
       Len(outputLayer[u].weights) = Len(layers[Len(layers)])

\* ------------------------------------------------------------------------
\* C5
\* ------------------------------------------------------------------------
\* C5: after any sequence of resize, train, trainUntilLearned,
\* forceAssociation and createDirectConnection calls the output layer has
\* outputSize units and feedForward returns exactly outputSize values for an
\* input shorter than inputSize (padded), of that length, or longer (truncated).
C5_OutputLengthIsOutputSize ==
  /\ Len(outputLayer) = outputSize
  /\ \A inputs \in InputVectors :
       Len(feedForward(This, inputs).out) = outputSize
  /\ IsCall("feedForward") => Len(last.out) = last.before.outputSize

\* a forward pass of an input longer than inputSize, on a network whose
\* output layer an earlier call has grown
C5_Witness ==
  /\ IsCall("feedForward")
  /\ Len(last.inputs) > last.before.inputSize
  /\ Len(last.out) = MaxLen + 1

\* ------------------------------------------------------------------------
\* C6
\* ------------------------------------------------------------------------
\* C6: after any sequence of trackAssociation calls with any mix of outcomes
\* the strength stored under every key, keys of labels with ':' in them
\* included, lies in [0.1, 1.0].
C6_StrengthWithinBounds ==
  \A key \in DOMAIN associationStrengths :
    LET s == associationStrengths[key]
    IN  /\ s[2] > 0
        /\ s[2] <= 10 * s[1]
        /\ s[1] <= s[2]

\* a key of a label with ':' in it, held at the floor by its eighth failure
\* in a row
C6_Witness ==
  /\ IsCall("trackAssociation")
  /\ ~last.success
  /\ \E key \in DOMAIN associationStrengths :
       /\ Len(split(key)) = 3
       /\ trainingAttempts[key] = 8
       /\ 10 * associationStrengths[key][1] = associationStrengths[key][2]

\* ------------------------------------------------------------------------
\* C7
\* ------------------------------------------------------------------------
\* C7: train and trainUntilLearned never throw, whatever the lengths of the
\* input and target arrays and for any maxAttempts >= 0.
C7_TrainingNeverThrows ==
  IsCall("train") \/ IsCall("trainUntilLearned") => ~last.threw

\* ------------------------------------------------------------------------
\* C8
\* ------------------------------------------------------------------------
\* a session that made a train call and ended without success
Exhausted ==
  /\ IsCall("trainUntilLearned")
  /\ ~last.threw
  /\ ~last.success
  /\ last.errors # <<>>

\* C8 as stated: the error of the result of a session that ended without
\* success is the smallest error the session observed.
C8_ExhaustedReportsBestError ==
  Exhausted => \A i \in 1..Len(last.errors) : ~Lt(last.errors[i], last.ret)

\* C8: the error of the result of a session that ended without success is the
\* value returned by the last train call of the session, and 1.0 when the
\* session made no train call.
C8_ExhaustedReportsLastError ==
  IsCall("trainUntilLearned") /\ ~last.threw /\ ~last.success =>
    /\ last.attempts = last.number
    /\ last.ret = IF last.errors = <<>> THEN Scale
                  ELSE last.errors[Len(last.errors)]

\* a session that ended without success and whose last error is not its
\* smallest
C8_Witness ==
  /\ Exhausted
  /\ Len(last.errors) >= 2
  /\ \E i \in 1..Len(last.errors) : Lt(last.errors[i], last.ret)

\* ------------------------------------------------------------------------
\* C9
\* ------------------------------------------------------------------------
\* C9: isConflictingAssociation(inputWord, targetWord) is true if and only if
\* a pair has been tracked whose input label is inputWord and whose output
\* label is not targetWord, labels with ':' in them included.
C9_ConflictIffOtherTarget ==
  IsCall("isConflictingAssociation") =>
    (last.conflicting <=>
       \E p \in pairs : p[1] = last.inputWord /\ p[2] # last.outputWord)

\* ------------------------------------------------------------------------
\* C10
\* ------------------------------------------------------------------------
\* the labels of a call are both given
Labelled(call) == call.inputWord # <<>> /\ call.outputWord # <<>>

\* C10: a train call with both labels trains with the larger of the caller's
\* reinforcement and calculateReinforcement of the labels, never less than the
\* caller's; with a label missing it trains with the caller's value; and the
\* units of the hidden layers and of the output layer get the same multiplier.
C10_ReinforcementIsTheLarger ==
  IsCall("train") /\ ~last.caught =>
    LET specific == calculateReinforcement(last.before, last.inputWord,
                                           last.outputWord)
        applied == IF Labelled(last) /\ specific > last.number
                   THEN specific ELSE last.number
    IN  /\ last.outputMultiplier = applied
        /\ last.hiddenMultiplier = applied
        /\ last.outputMultiplier >= last.number

\* a labelled train call whose memory asks for more than the caller does
C10_Witness ==
  /\ IsCall("train")
  /\ ~last.caught
  /\ Labelled(last)
  /\ last.number = 3 * Scale
  /\ calculateReinforcement(last.before, last.inputWord, last.outputWord)
       = 5 * Scale
  /\ last.hiddenMultiplier = 5 * Scale

\* ------------------------------------------------------------------------
\* C11
\* ------------------------------------------------------------------------
\* the number of trackAssociation calls made so far for a pair
CallsFor(p) == IF p \in DOMAIN calls THEN calls[p] ELSE 0

\* C11: calculateReinforcement returns 1.0 for a pair that has not been
\* tracked, 5.0 when the pair's attempts exceed 5 and its strength is below
\* 0.5, otherwise 2.0 when its attempts exceed 3, otherwise 1.0, the attempts
\* being the number of trackAssociation calls made for that pair; and it
\* leaves the memory as it was.
C11_TiersOverThePairsCalls ==
  IsCall("calculateReinforcement") =>
    LET p == <<last.inputWord, last.outputWord>>
        key == Key(last.inputWord, last.outputWord)
        n == CallsFor(p)
    IN  /\ associationStrengths = last.before.associationStrengths
        /\ trainingAttempts = last.before.trainingAttempts
        /\ n > 0 => /\ key \in DOMAIN trainingAttempts
                    /\ trainingAttempts[key] = n
        /\ last.ret =
             IF n = 0 THEN Scale
             ELSE IF n > 5 /\ 2 * associationStrengths[key][1]
                                < associationStrengths[key][2]
                  THEN 5 * Scale
             ELSE IF n > 3 THEN 2 * Scale
             ELSE Scale

\* ------------------------------------------------------------------------
\* C12
\* ------------------------------------------------------------------------
\* C12: feedForward changes no weight, bias, learning rate or momentum delta
\* of any unit, nor the sizes or the memory, and a second feedForward of the
\* same input right after it returns the same outputs.
C12_InferenceKeepsTheParameters ==
  IsCall("feedForward") =>
    /\ Parameters(This) = Parameters(last.before)
    /\ associationStrengths = last.before.associationStrengths
    /\ trainingAttempts = last.before.trainingAttempts
    /\ feedForward(This, last.inputs).out = last.out
    /\ Parameters(feedForward(This, last.inputs).nn) = Parameters(last.before)

\* a forward pass on a trained network that changed the units' caches
C12_Witness ==
  /\ IsCall("feedForward")
  /\ last.before.layers # layers
  /\ \E p \in Units(This) : Unit(This, p).prevBiasDelta # 0
  /\ \E i \in 1..Len(last.out) : last.out[i] # NaN /\ last.out[i] > 0

\* ------------------------------------------------------------------------
\* C13
\* ------------------------------------------------------------------------
\* C13: resize only grows and appends: every unit the network had before the
\* call is still at its place after it, its weight vector is at least as long
\* as before and starts with the weights it had, and its bias is unchanged.
C13_ResizeOnlyAppends ==
  IsCall("resize") =>
    /\ Len(layers) = Len(last.before.layers)
    /\ \A p \in Units(last.before) :
         /\ p \in Units(This)
         /\ Len(Unit(This, p).weights) >= Len(Unit(last.before, p).weights)
         /\ SubSeq(Unit(This, p).weights, 1, Len(Unit(last.before, p).weights))
              = Unit(last.before, p).weights
         /\ Unit(This, p).bias = Unit(last.before, p).bias

\* a resize to smaller sizes of a network an earlier resize had grown
C13_Witness ==
  /\ IsCall("resize")
  /\ last.number < last.before.inputSize
  /\ last.ret < last.before.outputSize
  /\ Len(last.before.outputLayer) = MaxLen + 1
  /\ Len(last.before.layers[1][1].weights) = MaxLen + 1

\* ------------------------------------------------------------------------
\* C14
\* ------------------------------------------------------------------------
\* C14: a second resize with the arguments of the resize just made changes
\* nothing: sizes, units of every layer and every weight vector stay as they
\* are, whatever the random draws would have been.
C14_ResizeTwiceIsResizeOnce ==
  (IsCall("resize") /\ ~last.threw) =>
    \A seed \in Seeds :
      /\ ~resize(This, last.number, last.ret, seed).threw
      /\ resize(This, last.number, last.ret, seed).nn = This

\* a resize that grew the first hidden layer and the output layer
C14_Witness ==
  /\ IsCall("resize")
  /\ ~last.threw
  /\ Len(outputLayer) > Len(last.before.outputLayer)
  /\ Len(layers[1][1].weights) > Len(last.before.layers[1][1].weights)

\* ------------------------------------------------------------------------
\* C15
\* ------------------------------------------------------------------------
\* C15: a unit given an empty input vector fails instead of returning a
\* value, and keeps its cached inputs and cached output. The units of the
\* first hidden layer are given an empty vector by every feedForward of a
\* network whose inputSize is 0: such a call is to fail, return no outputs
\* and leave the caches of those units as they were.
C15_EmptyInputIsRefused ==
  (IsCall("feedForward") /\ last.before.inputSize = 0) =>
    /\ last.threw
    /\ last.out = NoCall.out
    /\ \A u \in 1..Len(layers[1]) :
         /\ layers[1][u].lastInputs = last.before.layers[1][u].lastInputs
         /\ layers[1][u].lastOutput = last.before.layers[1][u].lastOutput

\* ------------------------------------------------------------------------
\* C16
\* ------------------------------------------------------------------------
\* the answer of lookup for one index is a vector of embeddingDim numbers
IsVector(slot, embeddingDim) ==
  /\ slot # undefined
  /\ Len(slot[1]) = embeddingDim

\* C16: after any sequence of resize, loadPretrainedEmbeddings and backward
\* calls, lookup answers every index, negative, within 0..vocabSize-1 or
\* beyond, with a vector of exactly embeddingDim numbers, and an index out of
\* range with the all-zero vector.
C16_LookupAlwaysAnswersAVector ==
  IsCall("lookup") =>
    /\ ~last.threw
    /\ Len(last.out) = Len(last.inputs)
    /\ \A k \in 1..Len(last.inputs) :
         /\ IsVector(last.out[k], embedding.embeddingDim)
         /\ (last.inputs[k] < 0 \/ last.inputs[k] >= embedding.vocabSize)
              => last.out[k] = Some(Zeros(embedding.embeddingDim))

\* ------------------------------------------------------------------------
\* C17
\* ------------------------------------------------------------------------
\* C17: at every point of any sequence of forward, backward and resetState
\* calls the hidden state and the cell state have length hiddenSize, and
\* right after resetState both are the all-zero vector of that length.
C17_StatesKeepLengthAndResetToZero ==
  /\ Len(lstm.lastHidden) = lstm.hiddenSize
  /\ Len(lstm.lastCell) = lstm.hiddenSize
  /\ IsCall("resetState") =>
       /\ lstm.lastHidden = Zeros(lstm.hiddenSize)
       /\ lstm.lastCell = Zeros(lstm.hiddenSize)

\* a reset of the largest layer after a forward pass that left numbers other
\* than zero in both states and a backward call that changed the forget
\* gate's bias
C17_Witness ==
  /\ IsCall("resetState")
  /\ lstm.hiddenSize = MaxHidden
  /\ \A k \in 1..MaxHidden :
       /\ last.before.lastHidden[k] \notin {0, NaN}
       /\ last.before.lastCell[k] \notin {0, NaN}
  /\ last.before.bf # Filled(MaxHidden, Scale)

\* ------------------------------------------------------------------------
\* C18
\* ------------------------------------------------------------------------
\* the position of the first event with the given name, 0 when there is none
IndexOf(events, name) ==
  IF \E i \in 1..Len(events) : events[i][1] = name
  THEN CHOOSE i \in 1..Len(events) :
         /\ events[i][1] = name
         /\ \A j \in 1..(i - 1) : events[j][1] # name
  ELSE 0

\* the events of the loop of a session: those after the boost and before the
\* reset of the rates (to the end, when the session did not get that far)
LoopEvents(events) ==
  IF IndexOf(events, "boost") = 0 THEN <<>>
  ELSE SubSeq(events, IndexOf(events, "boost") + 1,
              IF IndexOf(events, "reset") = 0 THEN Len(events)
              ELSE IndexOf(events, "reset") - 1)

\* the loop of the call ended with success: a check in it found the target
\* predicted, or a train call returned an error below targetError
LoopEndedWithSuccess(call) ==
  \/ \E i \in 1..Len(LoopEvents(call.events)) :
       LoopEvents(call.events)[i] = Event("check", 1)
  \/ \E k \in 1..Len(call.errors) : Lt(call.errors[k], call.targetError)

\* the loop of the call ended after maxAttempts attempts without success
LoopExhausted(call) ==
  /\ IndexOf(call.events, "reset") > 0
  /\ Count(call.events, "train") = call.number
  /\ ~LoopEndedWithSuccess(call)

\* C18: trainUntilLearned calls createDirectConnection if and only if its
\* loop ended after maxAttempts attempts without success; the session then
\* ends with these four events in this order: the rates reset, the failure
\* tracked, createDirectConnection with factor 50, one re-test, and the result
\* of the re-test is the success flag returned.  After a loop that ended with
\* success createDirectConnection is not called.
C18_LastResortOnlyAfterExhaustion ==
  IsCall("trainUntilLearned") =>
    /\ Count(last.events, "direct") > 0 <=> LoopExhausted(last)
    /\ LoopEndedWithSuccess(last) => Count(last.events, "direct") = 0
    /\ Count(last.events, "direct") > 0 =>
         /\ ~last.threw
         /\ Count(last.events, "direct") = 1
         /\ Len(last.events) >= 4
         /\ SubSeq(last.events, Len(last.events) - 3, Len(last.events) - 1)
              = <<Event("reset", 0), Event("track", 0),
                  Event("direct", 50 * Scale)>>
         /\ last.events[Len(last.events)][1] = "check"
         /\ last.success = (last.events[Len(last.events)][2] = 1)

\* ------------------------------------------------------------------------
\* C19
\* ------------------------------------------------------------------------
\* the number of train calls among the first i events
TrainsUpTo(events, i) ==
  Cardinality({j \in 1..i : events[j][1] = "train"})

\* the attempt whose train call is event i did not end the loop: the check
\* after it missed the target and the error was not below targetError
AttemptMissed(call, i) ==
  /\ call.events[i][1] = "train"
  /\ i < Len(call.events)
  /\ call.events[i + 1] = Event("check", 0)
  /\ ~Lt(call.errors[TrainsUpTo(call.events, i)], call.targetError)

\* C19: in a session forceAssociation is called right after every attempt k
\* with k % 3 = 0 whose train call and check did not end the loop, and nowhere
\* else; its factor is 20 when the pair was conflicting at the start of the
\* session and 10 otherwise; and when the check right after it finds the
\* target predicted, the loop ends with success and no further train call.
C19_ForceAfterEveryThirdMiss ==
  IsCall("trainUntilLearned") =>
    \A i \in 1..Len(last.events) :
      /\ (AttemptMissed(last, i) /\ TrainsUpTo(last.events, i) % 3 = 0)
           => /\ i + 2 <= Len(last.events)
              /\ last.events[i + 2][1] = "force"
      /\ last.events[i][1] = "force"
           => /\ i >= 3
              /\ AttemptMissed(last, i - 2)
              /\ TrainsUpTo(last.events, i) % 3 = 0
              /\ last.events[i][2] =
                   IF last.conflicting THEN 20 * Scale ELSE 10 * Scale
              /\ i = Len(last.events) => last.threw
              /\ i < Len(last.events) => last.events[i + 1][1] = "check"
              /\ (i < Len(last.events) /\ last.events[i + 1] = Event("check", 1))
                   => /\ Len(last.events) = i + 3
                      /\ last.events[i + 2] = Event("reset", 0)
                      /\ last.events[i + 3] = Event("track", 1)
                      /\ last.success

\* a session with a conflicting pair that forced the weights after the third
\* and after the sixth attempt
C19_Witness ==
  /\ IsCall("trainUntilLearned")
  /\ ~last.threw
  /\ last.conflicting
  /\ Count(last.events, "force") = 2
  /\ Count(last.events, "train") = 6

\* ------------------------------------------------------------------------
\* C20
\* ------------------------------------------------------------------------
\* the memory of the pair of a call before the call
StrengthBefore(call) ==
  IF Key(call.inputWord, call.outputWord)
       \in DOMAIN call.before.associationStrengths
  THEN call.before.associationStrengths[Key(call.inputWord, call.outputWord)]
  ELSE InitialStrength

AttemptsBefore(call) ==
  IF Key(call.inputWord, call.outputWord)
       \in DOMAIN call.before.trainingAttempts
  THEN call.before.trainingAttempts[Key(call.inputWord, call.outputWord)]
  ELSE 0

\* the memory now is that before the call with one more outcome of the pair
RecordedOnce(call, success) ==
  /\ DOMAIN associationStrengths
       = DOMAIN call.before.associationStrengths
           \cup {Key(call.inputWord, call.outputWord)}
  /\ DOMAIN trainingAttempts = DOMAIN associationStrengths
  /\ \A k \in DOMAIN call.before.associationStrengths :
       k # Key(call.inputWord, call.outputWord)
         => /\ associationStrengths[k] = call.before.associationStrengths[k]
            /\ trainingAttempts[k] = call.before.trainingAttempts[k]
  /\ trainingAttempts[Key(call.inputWord, call.outputWord)]
       = AttemptsBefore(call) + 1
  /\ associationStrengths[Key(call.inputWord, call.outputWord)]
       = IF success THEN Strengthen(StrengthBefore(call))
         ELSE Weaken(StrengthBefore(call))

\* the last resort of the call made the network predict the target
LastResortHit(call) ==
  /\ Count(call.events, "direct") = 1
  /\ call.events[Len(call.events)] = Event("check", 1)

\* C20 as stated: a trainUntilLearned call that returns has recorded the pair
\* exactly once, as a success if and only if the success it returns is true.
C20_RecordedOutcomeIsReturnedSuccess ==
  (IsCall("trainUntilLearned") /\ ~last.threw) =>
    /\ Count(last.events, "track") = 1
    /\ RecordedOnce(last, last.success)

\* C20: a trainUntilLearned call records the pair at most once, and exactly
\* once when it returns; the outcome recorded is that of the entry test and
\* the loop, a success if and only if the network predicted the target at
\* entry or the loop ended with success.  The success returned is true if and
\* only if that outcome is a success or the re-test of the last resort found
\* the target predicted: after a last resort that worked the memory holds a
\* failure and the call returns success.
C20_RecordedOutcomeIsTheLoopsOutcome ==
  IsCall("trainUntilLearned") =>
    /\ Count(last.events, "track") <= 1
    /\ ~last.threw => Count(last.events, "track") = 1
    /\ Count(last.events, "track") = 0
         => /\ associationStrengths = last.before.associationStrengths
            /\ trainingAttempts = last.before.trainingAttempts
    /\ Count(last.events, "track") = 1
         => RecordedOnce(last, EntryCorrect(last) \/ LoopEndedWithSuccess(last))
    /\ ~last.threw
         => last.success = \/ EntryCorrect(last)
                           \/ LoopEndedWithSuccess(last)
                           \/ LastResortHit(last)

\* a session whose loop ended without success and whose last resort worked:
\* a failure recorded, success returned
C20_Witness ==
  /\ IsCall("trainUntilLearned")
  /\ ~last.threw
  /\ LoopExhausted(last)
  /\ Count(last.events, "train") > 0
  /\ LastResortHit(last)
  /\ last.success
  /\ RecordedOnce(last, FALSE)

\* ------------------------------------------------------------------------
\* C21
\* ------------------------------------------------------------------------
\* the network as it is now predicts the target of the call
PredictsTarget(call) ==
  findHighestIndex(feedForward(This, call.inputs).out)
    = findHighestIndex(call.expectedOutputs)

\* C21: whenever trainUntilLearned returns success = true, the network at
\* the return predicts the target, however the loop ended.
C21_SuccessMeansTargetPredicted ==
  (IsCall("trainUntilLearned") /\ ~last.threw /\ last.success)
    => PredictsTarget(last)

\* ------------------------------------------------------------------------
\* C22
\* ------------------------------------------------------------------------
\* C22: every unit of the network holds one previous weight delta per weight,
\* after construction and after every resize, train and trainUntilLearned.
C22_OneDeltaPerWeight ==
  \A p \in Units(This) :
    Len(Unit(This, p).prevWeightDeltas) = Len(Unit(This, p).weights)

\* ------------------------------------------------------------------------
\* C23
\* ------------------------------------------------------------------------
\* a train call that found the sizes it needed and caught nothing
PlainTrain(call) ==
  /\ call.op = "train" /\ ~call.caught
  /\ Len(call.inputs) = call.before.inputSize
  /\ Len(call.expectedOutputs) = call.before.outputSize

\* the output layer of the call after its forward pass, and after its training
ForwardOf(call) == Forward(call.before, call.inputs)

OutputTrained(call) ==
  TrainLayer(ForwardOf(call).nn.outputLayer,
             OutputErrors(call.expectedOutputs, ForwardOf(call).out),
             call.outputMultiplier)

\* the last hidden layer trained on the errors propagated through the given
\* weights of the output layer
LastHiddenFrom(call, nextLayerWeights) ==
  TrainLayer(ForwardOf(call).nn.layers[Len(call.before.layers)],
             Array([u \in 1..Len(call.before.layers[Len(call.before.layers)]) |->
                BackError(OutputTrained(call).deltas, nextLayerWeights,
                          u - 1, 1)]),
             call.hiddenMultiplier).layer

\* C23: within one train call the error propagated to the units of the last
\* hidden layer is computed from the weights the output layer had when the
\* call began, not from the weights the call has already updated.
C23_BackwardUsesWeightsAtEntry ==
  PlainTrain(last) =>
    This.layers[Len(This.layers)]
      = LastHiddenFrom(last, WeightsOf(ForwardOf(last).nn.outputLayer))

\* ------------------------------------------------------------------------
\* C24
\* ------------------------------------------------------------------------
\* the call is one of the two weight-injection fallbacks
IsInjection == IsCall("forceAssociation") \/ IsCall("createDirectConnection")

\* both vectors of the call have a highest index
BothIndicesValid(call) ==
  findHighestIndex(call.inputs) >= 0
    /\ findHighestIndex(call.expectedOutputs) >= 0

\* the network differs from the one before the call in weights at most
OnlyWeightsChanged(call) ==
  /\ Units(This) = Units(call.before)
  /\ inputSize = call.before.inputSize /\ outputSize = call.before.outputSize
  /\ associationStrengths = call.before.associationStrengths
  /\ trainingAttempts = call.before.trainingAttempts
  /\ \A p \in Units(This) :
       Unit(This, p)
         = [Unit(call.before, p) EXCEPT !.weights = Unit(This, p).weights]

\* C24: forceAssociation and createDirectConnection leave the network as it was
\* when the input or the target vector has no highest index, and change
\* nothing but weights (never a bias) when both have one.
C24_InjectionGuardedAndWeightsOnly ==
  IsInjection =>
    IF BothIndicesValid(last) THEN OnlyWeightsChanged(last)
    ELSE This = last.before /\ ~last.threw

\* a forceAssociation with two valid indices that returned and moved weights of
\* the first hidden layer and of the output layer
C24_Witness ==
  /\ IsCall("forceAssociation") /\ BothIndicesValid(last) /\ ~last.threw
  /\ layers[1] # last.before.layers[1]
  /\ outputLayer # last.before.outputLayer
  /\ \A p \in Units(This) : ~IsNaN(Unit(This, p).bias)

\* ------------------------------------------------------------------------
\* C25
\* ------------------------------------------------------------------------
\* an accumulator of Adam in the shape of the dense layer: outputSize rows of
\* inputSize weights and outputSize biases
ShapedAs(accumulator, layer) ==
  /\ accumulator # null
  /\ Len(accumulator[1].weights) = layer.outputSize
  /\ \A i \in 1..layer.outputSize :
       Len(accumulator[1].weights[i]) = layer.inputSize
  /\ Len(accumulator[1].biases) = layer.outputSize

\* the accumulator of layer k fits the layer: null for an LSTM layer
Fits(net, accumulators, k) ==
  IF IsLSTM(net.layers[k]) THEN accumulators[k] = null
  ELSE ShapedAs(accumulators[k], net.layers[k])

\* C25: after construction and after every train, trainBatch and resize, the
\* accumulators m and v of Adam have one entry per layer, null for an LSTM
\* layer and of the current shape of the layer for a dense one.
C25_AdamAccumulatorsFitTheLayers ==
  /\ Len(advanced.adamOptParams.m) = Len(advanced.layers)
  /\ Len(advanced.adamOptParams.v) = Len(advanced.layers)
  /\ \A k \in 1..Len(advanced.layers) :
       /\ Fits(advanced, advanced.adamOptParams.m, k)
       /\ Fits(advanced, advanced.adamOptParams.v, k)

\* a train call that returned on a network whose vocabulary resize had grown,
\* and that moved the first moment of a weight of the new output
C25_Witness ==
  /\ IsCall("advanced.train") /\ ~last.threw
  /\ advanced.vocabSize = MaxVocab + 1
  /\ advanced.layers[Len(advanced.layers)].outputSize = MaxVocab + 1
  /\ \E j \in 1..advanced.layers[Len(advanced.layers)].inputSize :
       advanced.adamOptParams.m[Len(advanced.layers)][1].weights[MaxVocab + 1][j]
         \notin {0, NaN}

\* ------------------------------------------------------------------------
\* C26
\* ------------------------------------------------------------------------
\* the best validation loss of the first k epochs
RECURSIVE BestAfter(_, _)
BestAfter(losses, k) ==
  IF k = 0 THEN Infinity
  ELSE IF Lt(losses[k], BestAfter(losses, k - 1)) THEN losses[k]
  ELSE BestAfter(losses, k - 1)

\* the number of consecutive epochs up to epoch k whose validation loss was
\* not strictly below the best before them
RECURSIVE StaleAfter(_, _)
StaleAfter(losses, k) ==
  IF k = 0 THEN 0
  ELSE IF Lt(losses[k], BestAfter(losses, k - 1)) THEN 0
  ELSE StaleAfter(losses, k - 1) + 1

\* the call ran `epochsRun` epochs of at most `epochs`, stopping early at the
\* end of the first epoch at which the stale count reached `patience`
StoppedAsAsked(call, epochs, patience) ==
  IF call.options.validationData = null THEN call.epochsRun = epochs
  ELSE /\ call.epochsRun <= epochs
       /\ Len(call.validLosses) = call.epochsRun
       /\ \A k \in 1..(call.epochsRun - 1) :
            StaleAfter(call.validLosses, k) < patience
       /\ call.epochsRun < epochs
            => StaleAfter(call.validLosses, call.epochsRun) >= patience

\* C26: a trainBatch call runs exactly the epochs requested without validation
\* data; with validation data it stops at the end of the first epoch at which
\* the number of consecutive epochs without a strictly better validation loss
\* reaches the patience requested, and never runs more epochs than requested.
C26_StopsAfterPatienceOrEpochs ==
  (IsCall("advanced.trainBatch") /\ ~last.threw)
    => StoppedAsAsked(last, last.options.epochs,
                      last.options.earlyStoppingPatience)


\* C26, amended: the epochs and the patience of a trainBatch call are the
\* values requested, or 1 and 5 where the value requested is absent or 0; the
\* call runs exactly those epochs without validation data, and with validation
\* data stops at the end of the first epoch at which the number of consecutive
\* epochs without a strictly better validation loss reaches that patience.
C26_StopsAfterPatienceOrEpochsWithDefaults ==
  (IsCall("advanced.trainBatch") /\ ~last.threw)
    => StoppedAsAsked(last, Or(last.options.epochs, 1),
                      Or(last.options.earlyStoppingPatience, 5))

\* a call asked for the most epochs with patience 1 that stopped after the
\* second: its validation loss was finite after the first epoch and not
\* strictly better after the second
C26_Witness ==
  /\ IsCall("advanced.trainBatch") /\ ~last.threw
  /\ last.options.epochs = MaxEpochs
  /\ last.options.earlyStoppingPatience = 1
  /\ last.options.validationData # null
  /\ last.epochsRun = 2
  /\ ~IsNaN(last.validLosses[1])
  /\ ~Lt(last.validLosses[2], last.validLosses[1])

\* ------------------------------------------------------------------------
\* C27
\* ------------------------------------------------------------------------
\* C27: an inference pass (training = false) leaves nothing behind that the
\* next one reads: forward called again with the same input, with no train
\* call in between, returns the output it has just returned.
C27_InferenceIsRepeatable ==
  (IsCall("advanced.forward") /\ ~last.training)
    => forward(advanced, last.inputs, FALSE, last.number, 0).out = last.out

\* ------------------------------------------------------------------------
\* C28
\* ------------------------------------------------------------------------
\* no entry of the vector, or of the matrix, is NaN
AllFinite(x) == \A k \in 1..Len(x) : ~IsNaN(x[k])

AllFiniteRows(W) == \A h \in 1..Len(W) : AllFinite(W[h])

\* the input weights and the biases of the four gates are finite
FiniteParameters(l) ==
  /\ AllFiniteRows(l.Wi) /\ AllFiniteRows(l.Wf)
  /\ AllFiniteRows(l.Wc) /\ AllFiniteRows(l.Wo)
  /\ AllFinite(l.bi) /\ AllFinite(l.bf) /\ AllFinite(l.bc) /\ AllFinite(l.bo)

\* a forward pass has left finite caches of the layer's sizes
FiniteCaches(l) ==
  /\ l.lastInput # null /\ l.gates.i # null
  /\ Len(l.lastInput[1]) = l.inputSize /\ AllFinite(l.lastInput[1])
  /\ Len(l.lastCell) = l.hiddenSize /\ AllFinite(l.lastCell)
  /\ \A g \in {l.gates.i[1], l.gates.f[1], l.gates.o[1], l.gates.c_new[1]} :
       Len(g) = l.hiddenSize /\ AllFinite(g)

\* C28: a backward call after a forward pass, given a finite gradient of
\* length hiddenSize on a layer whose parameters and cached values are finite,
\* leaves every weight and bias finite and returns a finite input gradient.
C28_BackwardStaysFinite ==
  ( /\ IsCall("lstm.backward") /\ ~last.threw
    /\ Len(last.inputs) = last.before.hiddenSize /\ AllFinite(last.inputs)
    /\ FiniteParameters(last.before) /\ FiniteCaches(last.before) )
  => FiniteParameters(lstm) /\ AllFinite(last.out)

\* ------------------------------------------------------------------------
\* C29
\* ------------------------------------------------------------------------
\* C29: the step counter t of Adam is 0 after construction, is one more after
\* every train call that returns, whatever the number of dense layers, and is
\* left as it was by resize.
C29_OneAdamStepPerTrainCall ==
  /\ ops = 0 => advanced.adamOptParams.t = 0
  /\ (IsCall("advanced.train") /\ ~last.threw)
       => advanced.adamOptParams.t = last.before.adamOptParams.t + 1
  /\ IsCall("advanced.resize")
       => advanced.adamOptParams.t = last.before.adamOptParams.t

\* ------------------------------------------------------------------------
\* C30
\* ------------------------------------------------------------------------
\* the store holds a vector of the layer's dimension for the word
HasMatchingVector(layer, word) ==
  /\ word \in DOMAIN layer.wordEmbeddingDb[1].vectors
  /\ Len(layer.wordEmbeddingDb[1].vectors[word]) = layer.embeddingDim

\* C30: loading pre-trained embeddings leaves the row of every label for which
\* the store has no vector of the layer's dimension as it was, and reports
\* success only when some label had such a vector.
C30_OnlyRealVectorsAreLoaded ==
  (IsCall("loadPretrainedEmbeddings") /\ last.before.wordEmbeddingDb # null)
  => /\ \A k \in 1..Len(last.inputs) :
          ~HasMatchingVector(last.before, last.inputs[k][1])
            => RowAt(embedding.embeddings, last.inputs[k][2])
                 = RowAt(last.before.embeddings, last.inputs[k][2])
     /\ last.success
          = (\E k \in 1..Len(last.inputs) :
               HasMatchingVector(last.before, last.inputs[k][1]))

====
